---- MODULE Spec2Model ----
(***************************************************************************)
(* The per-file caching and transfer engine of onedrive-fuse               *)
(* (src/vfs/file.rs): FilePool, DiskCache, FileCache and the tasks they    *)
(* spawn, as a state machine.  One action per critical section: the code   *)
(* serialises a slot's state behind an async mutex, so everything done     *)
(* between taking and releasing the guard is one step, and every `.await`  *)
(* outside a guard is a step boundary.                                     *)
(***************************************************************************)
EXTENDS Integers, Sequences, FiniteSets, TLC

VARIABLES
    bound,       \* the limits of the explored runs (fixed)
    config,      \* FilePool.config (fixed after construction)
    remote,      \* the remote store: item id -> [c_tag, data]
    next_tag,    \* the next CTag the remote hands out
    slots,       \* every FileCache allocated so far, by allocation number
    cache,       \* DiskCache.cache: LRU list of [id, slot], least recent first
    total_size,  \* DiskCache.total_size (AtomicU64, see U64 below)
    handles,     \* FilePool.handles: slab key -> File
    wtask,       \* live write_to_cache_thread tasks: slot -> task locals
    uploaders,   \* live uploader tasks spawned by queue_upload
    epochs,      \* per dirty epoch (lock_mtime): its done watch channel
    ops,         \* FilePool calls in flight or just returned
    ret,         \* the result of the call that returned in the last step
    events,      \* what was sent on event_tx, in order
    failures,    \* how many upload_small calls have failed
    streams,     \* the FileStreamState and download of each streaming handle
    inodes       \* the InodePool (src/vfs/inode.rs)

vars == <<bound, config, remote, next_tag, slots, cache, total_size, handles, wtask,
          uploaders, epochs, ops, ret, events, failures, streams, inodes>>

(***************************************************************************)
(* Bounds of the exploration.                                              *)
(***************************************************************************)
MaxSlots    == 2   \* FileCache allocations in one run
MaxEpochs   == 2   \* queue_upload calls in one run
MaxOps      == 1   \* FilePool calls suspended at an await at the same time
MaxHandles  == 1   \* open handles at the same time
MaxFailures == 1   \* failed upload_small calls in one run
MaxSyncs    == 1   \* sync_items calls suspended at the same time
MaxStreams  == 1   \* streaming handles opened in one run
MaxInodes   == 3   \* entries of the inode slab

Bounds ==
    [slots |-> MaxSlots, epochs |-> MaxEpochs, ops |-> MaxOps,
     handles |-> MaxHandles, failures |-> MaxFailures, syncs |-> MaxSyncs,
     streams |-> MaxStreams]

(***************************************************************************)
(* Configuration values of the explored runs (Config, file.rs:34-66).      *)
(***************************************************************************)
CfgMaxCachedFileSize == 2
CfgMaxFiles          == 1
CfgMaxTotalSize      == 3
CfgUploadMaxSize     == 2
CfgStreamBufferChunks == 2
\* DownloadConfig::max_retry (file.rs:43).
CfgMaxRetry == 1
\* The requests a download makes without a byte between them.
MaxRequests == 4

Ids     == {"a", "b"}
Bytes   == {1, 2}          \* payload bytes; 0 is what a sparse file reads as
None    == -1              \* Option::None for sizes and slots
NoSlot  == 0

Min(x, y) == IF x <= y THEN x ELSE y
Max(x, y) == IF x >= y THEN x ELSE y

RECURSIVE SumOver(_, _)
SumOver(f, S) ==
    IF S = {} THEN 0
    ELSE LET x == CHOOSE y \in S : TRUE IN f[x] + SumOver(f, S \ {x})

Zeros(n) == [i \in 1..n |-> 0]

(***************************************************************************)
(* AtomicU64 arithmetic.  A u64 is kept as an integer n: n >= 0 is the     *)
(* value n, n < 0 is the wrapped value 2^64 + n.  fetch_add and fetch_sub  *)
(* wrap, so on these representatives they are plain + and -; an ordering   *)
(* test reads a negative representative as the huge value it stands for.   *)
(***************************************************************************)
U64Add(a, b) == a + b
U64Sub(a, b) == a - b
U64Less(a, b) ==
    IF a < 0 THEN (b < 0 /\ a < b) ELSE (b < 0 \/ a < b)

(***************************************************************************)
(* std::fs::File::set_len and a positioned write_all on the sparse file.   *)
(***************************************************************************)
SetLen(file, n) ==
    [i \in 1..n |-> IF i <= Len(file) THEN file[i] ELSE 0]

WriteAt(file, offset, data) ==
    LET n == Max(Len(file), offset + Len(data))
    IN  [i \in 1..n |->
            IF i > offset /\ i <= offset + Len(data) THEN data[i - offset]
            ELSE IF i <= Len(file) THEN file[i] ELSE 0]

ReadAt(file, offset, end) == SubSeq(file, offset + 1, end)

(***************************************************************************)
(* FileCache (file.rs:673-734).  status is the tag of FileCacheStatus; its *)
(* payload lives in truncate (Downloading), lock_mtime and flush_tx        *)
(* (Dirty).  available_size is the value of the watch channel.             *)
(***************************************************************************)
NoCompletion == [stamp |-> 0, src |-> <<>>, cap |-> 0, file_size |-> 0]

FileCacheNew(item_id, file_size, c_tag, status, truncate) ==
    [ item_id        |-> item_id,
      c_tag          |-> c_tag,
      status         |-> status,
      truncate       |-> truncate,
      lock_mtime     |-> 0,
      flush_tx       |-> FALSE,
      file_size      |-> file_size,
      cache_file     |-> Zeros(file_size),
      available_size |-> 0,
      \* bookkeeping of the current burst of modifications (not in the code):
      \* its queue_upload calls, its upload_small calls, and whether all of
      \* it came within one flush_delay (before any upload_small call of the
      \* burst) with no explicit flush and no failed upload
      burst_writes   |-> 0,
      burst_calls    |-> 0,
      burst_clean    |-> TRUE,
      \* bookkeeping of a download that ended with a pending truncate (not
      \* in the code): the epoch it queued and the stream it was cut from
      completion     |-> NoCompletion ]

\* What is left of a FileCache once its last Arc is gone.
Dropped(item_id) ==
    [ item_id |-> item_id, c_tag |-> 0, status |-> "Dropped", truncate |-> None,
      lock_mtime |-> 0, flush_tx |-> FALSE, file_size |-> 0,
      cache_file |-> <<>>, available_size |-> 0, burst_writes |-> 0,
      burst_calls |-> 0, burst_clean |-> TRUE, completion |-> NoCompletion ]

SlotIds == 1..Len(slots)

\* The slots not yet dropped.
Live == {s \in SlotIds : slots[s].status # "Dropped"}

(***************************************************************************)
(* LruCache<ItemId, Arc<FileCache>> as the list of its entries, least      *)
(* recently used first.                                                    *)
(***************************************************************************)
CacheIndex(c, id) ==
    IF \E i \in 1..Len(c) : c[i].id = id
    THEN CHOOSE i \in 1..Len(c) : c[i].id = id
    ELSE 0

CacheRemoveAt(c, i) == SubSeq(c, 1, i - 1) \o SubSeq(c, i + 1, Len(c))

\* LruCache::get_mut: the slot of id (NoSlot on a miss).
CacheLookup(c, id) ==
    IF CacheIndex(c, id) = 0 THEN NoSlot ELSE c[CacheIndex(c, id)].slot

\* LruCache::get_mut moves a hit to the most recently used end.
CacheTouch(c, id) ==
    LET i == CacheIndex(c, id)
    IN  IF i = 0 THEN c ELSE Append(CacheRemoveAt(c, i), c[i])

\* LruCache::remove.
CacheRemove(c, id) ==
    LET i == CacheIndex(c, id)
    IN  IF i = 0 THEN c ELSE CacheRemoveAt(c, i)

\* LruCache::insert: replace or add at the most recent end, then drop the
\* least recent entry when over capacity.
CacheInsert(c, id, s, capacity) ==
    LET added == Append(CacheRemove(c, id), [id |-> id, slot |-> s])
    IN  IF Len(added) > capacity THEN Tail(added) ELSE added

CachedSlots(c) == {c[i].slot : i \in 1..Len(c)}

(***************************************************************************)
(* Arc<FileCache> owners: the cache map, open handles, the writer task,    *)
(* uploader tasks, and calls that hold a clone across an await.            *)
(***************************************************************************)
Owners(c, h, w, u, o) ==
    CachedSlots(c)
    \cup {h[k].slot : k \in {j \in DOMAIN h : h[j].kind = "Cached"}}
    \cup DOMAIN w
    \cup {t.slot : t \in u}
    \cup UNION {x.holds : x \in o}

LiveSlots == Owners(cache, handles, wtask, uploaders, ops)

(***************************************************************************)
(* FileCache::queue_upload, the part run by the caller under the guard     *)
(* (file.rs:962-969): a new epoch stamp, a fresh flush_tx and done_rx.     *)
(* Instant::now() is taken as strictly increasing: the stamp of an epoch   *)
(* is its index in epochs.                                                 *)
(***************************************************************************)
\* queue_upload that keeps the stamp of the first write of a burst.
QueueUploadStatusFirstStamp(f, stamp) ==
    [f EXCEPT !.status = "Dirty", !.truncate = None,
              !.lock_mtime = IF f.status = "Dirty" THEN @ ELSE stamp,
              !.flush_tx = TRUE,
              !.burst_writes  = IF f.status = "Dirty" THEN @ + 1 ELSE 1,
              !.burst_calls   = IF f.status = "Dirty" THEN @ ELSE 0,
              !.burst_clean   = IF f.status = "Dirty"
                                THEN @ /\ f.burst_calls = 0 ELSE TRUE]

QueueUploadStatus(f, stamp) ==
    [f EXCEPT !.status = "Dirty", !.truncate = None,
              !.lock_mtime = stamp, !.flush_tx = TRUE,
              !.burst_writes  = IF f.status = "Dirty" THEN @ + 1 ELSE 1,
              !.burst_calls   = IF f.status = "Dirty" THEN @ ELSE 0,
              !.burst_clean   = IF f.status = "Dirty"
                                THEN @ /\ f.burst_calls = 0 ELSE TRUE]

\* The task queue_upload spawns (file.rs:971-973), waiting in time::timeout.
SpawnUploader(s, stamp) ==
    [slot |-> s, init_lock_mtime |-> stamp, pc |-> "delay",
     data |-> <<>>, c_tag |-> 0]

\* The watch channel of the epoch: open, or closed with its last value.
\* uploaded records that upload_small succeeded with a snapshot of the
\* epoch, c_tag and size what it stored (bookkeeping, not in the code).
NewEpoch(s) ==
    [slot |-> s, done |-> "open", uploaded |-> FALSE, c_tag |-> 0, size |-> 0]

NextStamp == Len(epochs) + 1

\* The uploader's test that its epoch is the slot's current one
\* (file.rs:980-981 and 1030-1031).
EpochCurrentAnyStamp(f, t) == f.status = "Dirty"

EpochCurrent(f, t) ==
    f.status = "Dirty" /\ f.lock_mtime = t.init_lock_mtime

\* flush_rx resolves once the sender was used or dropped: it is pending only
\* while the status still holds Some(flush_tx) of this epoch.
FlushRxPending(f, t) == EpochCurrent(f, t) /\ f.flush_tx

\* pos_tx lives in the writer task: the available_size watch is open while
\* that task runs.
PosTxAlive(s) == s \in DOMAIN wtask

(***************************************************************************)
(* A FilePool call suspended at an await, and the result of a call.        *)
(***************************************************************************)
Call(op, pc, id, s, holds) ==
    [op |-> op, pc |-> pc, id |-> id, slot |-> s, holds |-> holds,
     offset |-> 0, size |-> 0, data |-> <<>>, stamp |-> 0,
     c_tag |-> 0, remote_size |-> 0, write_mode |-> FALSE, queue |-> <<>>,
     need |-> {}]

NoRet ==
    [op |-> "none", id |-> "", slot |-> NoSlot, arg |-> <<>>, res |-> "",
     val |-> <<>>]

\* The result res (with the value val) of the call op(arg) on id, which
\* went through slot s.
Ret(op, id, s, arg, res, val) ==
    [op |-> op, id |-> id, slot |-> s, arg |-> arg, res |-> res, val |-> val]

\* A call returns in this step.
ReturnsOf(op, id, s, arg, res, val) == ret' = Ret(op, id, s, arg, res, val)
Returns(op, id, s, res, val) == ReturnsOf(op, id, s, <<>>, res, val)

\* No call returns in this step.
Pending == ret' = NoRet

(***************************************************************************)
(* Drop for FileCache (file.rs:1068-1074): a slot no owner is left of      *)
(* after the step gives its file_size back.  sl and ts are the slots and   *)
(* the counter as the step leaves them before the drops.                   *)
(***************************************************************************)
DropSize(f) == f.file_size

Reap(sl, ts) ==
    LET owned == Owners(cache', handles', wtask', uploaders', ops')
        dead  == {s \in DOMAIN sl : sl[s].status # "Dropped" /\ s \notin owned}
        sizes == [s \in DOMAIN sl |-> DropSize(sl[s])]
    IN  /\ slots' = [s \in DOMAIN sl |->
                        IF s \in dead THEN Dropped(sl[s].item_id) ELSE sl[s]]
        /\ total_size' = U64Sub(ts, SumOver(sizes, dead))

(***************************************************************************)
(* DiskCache::try_alloc_and_fetch (file.rs:547-608).                       *)
(***************************************************************************)
\* The count without the Arc of the cache map.
OwnedElsewhereButMap(s, but_writer) ==
    s \in Owners(<<>>, handles, IF but_writer THEN <<>> ELSE wtask,
                 uploaders, ops)

\* Whether slot s has an owner besides the one that asks: the cache map
\* that pops it (file.rs:570-574) or, with but_writer, the writer task
\* counting the Arcs (`Arc::strong_count(&this) != 1`, file.rs:776-779).
OwnedElsewhere(s, but_writer) ==
    s \in Owners(IF but_writer THEN cache ELSE <<>>, handles,
                 IF but_writer THEN <<>> ELSE wtask, uploaders, ops)

\* The budget the eviction loop compares the running total with
\* (file.rs:568).
EvictionLimit == config.disk_cache.max_cached_file_size

\* "Drop LRU until we have enough space" (file.rs:567-575): an evicted slot
\* gives its size back at once only when the map held its last Arc.
RECURSIVE EvictLru(_, _, _)
EvictLru(c, total, file_size) ==
    IF ~U64Less(EvictionLimit, U64Add(total, file_size))
    THEN [ok |-> TRUE, cache |-> c]
    ELSE IF Len(c) = 0
    THEN [ok |-> FALSE, cache |-> c]
    ELSE LET s     == c[1].slot
             freed == IF OwnedElsewhere(s, FALSE) THEN 0 ELSE DropSize(slots[s])
         IN  EvictLru(Tail(c), U64Sub(total, freed), file_size)

\* The outcome: the slot returned (NoSlot for None), the map afterwards and
\* whether the slot is newly allocated.
TryAllocAndFetch(id, file_size) ==
    IF config.disk_cache.max_cached_file_size < file_size
    THEN [slot |-> NoSlot, cache |-> cache, fresh |-> FALSE]
    ELSE IF CacheLookup(cache, id) # NoSlot
    THEN [slot |-> CacheLookup(cache, id), cache |-> CacheTouch(cache, id),
          fresh |-> FALSE]
    ELSE LET ev == EvictLru(cache, total_size, file_size)
         IN  IF ~ev.ok
             THEN [slot |-> NoSlot, cache |-> ev.cache, fresh |-> FALSE]
             ELSE [slot  |-> Len(slots) + 1,
                   cache |-> CacheInsert(ev.cache, id, Len(slots) + 1,
                                         config.disk_cache.max_files),
                   fresh |-> TRUE]

\* The slots, the writer tasks and the counter after an outcome r: a new
\* slot starts Downloading{truncate}; its tasks download src, the content
\* behind the URL, having been told that it is file_size bytes long.
AllocSlots(r, id, file_size, c_tag, truncate) ==
    IF r.fresh
    THEN Append(slots, FileCacheNew(id, file_size, c_tag, "Downloading", truncate))
    ELSE slots

AllocWriters(r, file_size, src) ==
    IF r.fresh
    THEN wtask @@ (r.slot :> [pos |-> 0, rcvd |-> 0, src |-> src,
                              dl_size |-> file_size])
    ELSE wtask

AllocTotal(r, file_size) ==
    IF r.fresh THEN U64Add(total_size, file_size) ELSE total_size

(***************************************************************************)
(* FilePool.handles.                                                       *)
(***************************************************************************)
NoFile          == [kind |-> "Free", slot |-> NoSlot]
Cached(s)       == [kind |-> "Cached", slot |-> s]
\* File::Streaming: slot is the number of its FileStreamState in streams.
Streaming(i)    == [kind |-> "Streaming", slot |-> i]
FreeKeys        == {k \in DOMAIN handles : handles[k].kind = "Free"}
\* Slab::insert: some free key (the least one, keys being interchangeable).
InsertHandle(file) ==
    LET k == CHOOSE j \in FreeKeys : \A i \in FreeKeys : j <= i
    IN  [handles EXCEPT ![k] = file]

(***************************************************************************)
(* FileStreamState (file.rs:391-412): the read position, the stashed rest  *)
(* of a chunk (<<>> for None), and the chunk channel with the              *)
(* download_thread feeding it: chan holds the chunks sent and not yet      *)
(* received, src is the content behind the URL, sent the thread's pos, tx  *)
(* whether the thread still holds the sender.                              *)
(***************************************************************************)
NoStream ==
    [file_size |-> 0, current_pos |-> 0, buffer |-> <<>>, chan |-> <<>>,
     src |-> <<>>, sent |-> 0, tx |-> FALSE,
     pc |-> "request", tries |-> 0, idle |-> 0]

\* FileStreamState::fetch (file.rs:399-412).
StreamFetch(file_size, src) ==
    [file_size |-> file_size, current_pos |-> 0, buffer |-> <<>>,
     chan |-> <<>>, src |-> src, sent |-> 0, tx |-> TRUE,
     pc |-> "request", tries |-> 0, idle |-> 0]

\* The streams an open handle or a read in progress holds.
StreamOwners(h, o) ==
    {h[k].slot : k \in {j \in DOMAIN h : h[j].kind = "Streaming"}}
    \cup {x.slot : x \in {y \in o : y.op = "stream_read"}}

\* Dropping the last Arc of a FileStreamState drops rx and what it holds;
\* the download_thread returns at its next send (file.rs:503-510).  st is
\* the streams as the step leaves them before the drops.
StreamReap(st) ==
    [i \in DOMAIN st |->
        IF i \in StreamOwners(handles', ops') THEN st[i] ELSE NoStream]

(***************************************************************************)
(* InodePool (inode.rs:79-131).  pool is the sharded_slab::Pool by key: an *)
(* entry is live between create and clear; clear runs Inode::clear, which  *)
(* empties item_id and leaves ref_count as it is (inode.rs:94-101).        *)
(* rev_map maps an item id to its key, None for an id without entry.       *)
(***************************************************************************)
ROOT_INO     == 1
RootId       == "root"
InodeItems   == Ids \cup {RootId}
InodeKeys    == 0..(MaxInodes - 1)

\* Inode::default (inode.rs:104-113).
InodeDefault == [live |-> FALSE, ref_count |-> 0, item_id |-> ""]

\* key_to_ino and ino_to_key (inode.rs:133-139), wrapping u64 arithmetic on
\* the representatives of U64Add.
KeyToIno(p, key) == U64Add(key, p.ino_shift)
InoToKey(p, ino) == U64Sub(ino, p.ino_shift)

\* Pool::get: the entry of a key, None for a key without live entry.
PoolGet(p, key) ==
    IF key \in InodeKeys /\ p.pool[key].live THEN key ELSE None

FreeInodeKeys(p) == {k \in InodeKeys : ~p.pool[k].live}

\* acquire_or_alloc (inode.rs:143-168) when the slab hands out key for a
\* vacant item id.
AcquireOrAlloc(p, item_id, key) ==
    IF p.rev_map[item_id] # None
    THEN [p EXCEPT !.pool[p.rev_map[item_id]].ref_count = U64Add(@, 1)]
    ELSE [p EXCEPT !.pool[key] = [live |-> TRUE, ref_count |-> 1,
                                  item_id |-> item_id],
                   !.rev_map[item_id] = key]

\* The key acquire_or_alloc returns.
AcquiredKey(p, item_id, key) ==
    IF p.rev_map[item_id] # None THEN p.rev_map[item_id] ELSE key

\* The keys the slab may hand out for item_id (any free one).
AllocKeys(p, item_id) ==
    IF p.rev_map[item_id] # None THEN {p.rev_map[item_id]}
    ELSE FreeInodeKeys(p)

\* free_key (inode.rs:170-182) on a live key: fetch_sub, and the entry is
\* cleared unless count < orig_ref_count.
FreeKey(p, key, count) ==
    LET orig == p.pool[key].ref_count
        subd == [p EXCEPT !.pool[key].ref_count = U64Sub(orig, count)]
    IN  IF U64Less(count, orig) THEN subd
        ELSE [subd EXCEPT !.pool[key].live = FALSE,
                          !.pool[key].item_id = "",
                          !.rev_map[p.pool[key].item_id] = None]

\* InodePool::new (inode.rs:120-131): the root is acquired first, and
\* ino_shift makes its key inode number 1.
InodePoolNew(root_key) ==
    LET empty == [pool |-> [k \in InodeKeys |-> InodeDefault],
                  rev_map |-> [id \in InodeItems |-> None],
                  ino_shift |-> 0]
    IN  [AcquireOrAlloc(empty, RootId, root_key)
            EXCEPT !.ino_shift = U64Sub(ROOT_INO, root_key)]

\* get_item_id (inode.rs:256-263): the item id, or "" for InvalidInode.
GetItemId(p, ino) ==
    IF PoolGet(p, InoToKey(p, ino)) = None THEN ""
    ELSE p.pool[InoToKey(p, ino)].item_id

(***************************************************************************)
(* The state after FilePool::new (file.rs:87-98, 527-541): an empty cache  *)
(* and no handles.  The remote holds one small file per item id.           *)
(***************************************************************************)
InitConfig ==
    [disk_cache |-> [enable               |-> TRUE,
                     max_cached_file_size |-> CfgMaxCachedFileSize,
                     max_files            |-> CfgMaxFiles,
                     max_total_size       |-> CfgMaxTotalSize],
     upload     |-> [max_size |-> CfgUploadMaxSize],
     download   |-> [stream_buffer_chunks |-> CfgStreamBufferChunks,
                     max_retry            |-> CfgMaxRetry]]

InitRemote ==
    [id \in Ids |-> IF id = "a" THEN [c_tag |-> 1, data |-> <<1>>]
                                ELSE [c_tag |-> 2, data |-> <<2>>]]

\* The program started with the limits b, the configuration cfg and the
\* remote content r.
InitOf(b, cfg, r) ==
    /\ bound = b
    /\ config = cfg
    /\ remote = r
    /\ next_tag = 3
    /\ slots = <<>>
    /\ cache = <<>>
    /\ total_size = 0
    /\ handles = [k \in 1..b.handles |-> NoFile]
    /\ wtask = <<>>
    /\ uploaders = {}
    /\ epochs = <<>>
    /\ ops = {}
    /\ ret = NoRet
    /\ events = <<>>
    /\ failures = 0
    /\ streams = <<>>

InitWith(b) ==
    /\ InitOf(b, InitConfig, InitRemote)
    /\ inodes = InodePoolNew(0)

Init == InitWith(Bounds)

\* FilePool::fetch_meta (file.rs:109-116): size, CTag and the URL's content.
FetchMeta(id) ==
    [file_size |-> Len(remote[id].data), c_tag |-> remote[id].c_tag,
     src |-> remote[id].data]

\* Bounds on the calls suspended at the same time.
CanSuspend == Cardinality({o \in ops : o.op # "sync"}) < bound.ops
CanSync    == Cardinality({o \in ops : o.op = "sync"}) < bound.syncs

(***************************************************************************)
(* FilePool::open (file.rs:118-183).                                       *)
(***************************************************************************)
\* A cache hit (file.rs:126-129): the slot is handed out as it is.
OpenHit(id) ==
    /\ FreeKeys # {}
    /\ CacheLookup(cache, id) # NoSlot
    /\ cache' = CacheTouch(cache, id)
    /\ handles' = InsertHandle(Cached(CacheLookup(cache, id)))
    /\ Returns("open", id, CacheLookup(cache, id), "Ok", <<>>)
    /\ UNCHANGED <<bound, config, inodes, streams, remote, next_tag, slots, total_size, wtask,
                   uploaders, epochs, ops, events, failures>>

\* Bookkeeping for the call: the modifications of id not yet uploaded when
\* the call is made, as [slot, stamp] (stamp 0: a truncate pending on a
\* download).
Unflushed(id) ==
    {[slot |-> s, stamp |-> slots[s].lock_mtime] :
        s \in {x \in SlotIds : /\ slots[x].item_id = id
                               /\ \/ slots[x].status = "Dirty"
                                  \/ /\ slots[x].status = "Downloading"
                                     /\ slots[x].truncate # None}}

\* A miss: fetch_meta, suspended at its await (file.rs:131-132).
OpenMiss(id, write_mode) ==
    /\ CanSuspend
    /\ FreeKeys # {}
    /\ CacheLookup(cache, id) = NoSlot
    /\ ops' = ops \cup
          {[Call("open", "alloc", id, NoSlot, {}) EXCEPT
                !.write_mode = write_mode, !.size = FetchMeta(id).file_size,
                !.c_tag = FetchMeta(id).c_tag, !.data = FetchMeta(id).src,
                !.need = Unflushed(id)]}
    /\ Pending
    /\ UNCHANGED <<bound, config, inodes, streams, remote, next_tag, slots, cache, total_size,
                   handles, wtask, uploaders, epochs, events, failures>>

\* try_alloc_and_fetch and the handle (file.rs:133-169, 181).
OpenAlloc(o) ==
    /\ o.op = "open" /\ o.pc = "alloc"
    /\ FreeKeys # {}
    /\ LET r == TryAllocAndFetch(o.id, o.size)
       IN  /\ r.fresh => Len(slots) < bound.slots
           /\ cache' = r.cache
           /\ wtask' = AllocWriters(r, o.size, o.data)
           /\ ops' = ops \ {o}
           /\ IF r.slot # NoSlot
              THEN /\ handles' = InsertHandle(Cached(r.slot))
                   /\ Returns("open", o.id, r.slot, "Ok", <<>>)
              ELSE IF o.write_mode
              THEN /\ handles' = handles
                   /\ Returns("open", o.id, NoSlot, "FileTooLarge", <<>>)
              ELSE /\ handles' = InsertHandle(Streaming(Len(streams) + 1))
                   /\ Returns("open", o.id, NoSlot, "Ok", <<>>)
           /\ streams' =
                 IF r.slot = NoSlot /\ ~o.write_mode
                 THEN Append(streams, StreamFetch(o.size, o.data))
                 ELSE streams
           /\ (r.slot = NoSlot /\ ~o.write_mode) => Len(streams) < bound.streams
           /\ UNCHANGED <<bound, config, inodes, remote, next_tag, uploaders,
                          epochs, events, failures>>
           /\ Reap(AllocSlots(r, o.id, o.size, o.c_tag, None),
                   AllocTotal(r, o.size))

\* FilePool::close (file.rs:283-289).
Close(k) ==
    /\ handles[k].kind # "Free"
    /\ handles' = [handles EXCEPT ![k] = NoFile]
    /\ Pending
    /\ UNCHANGED <<bound, config, inodes, remote, next_tag, cache, wtask,
                   uploaders, epochs, ops, events, failures>>
    /\ streams' = StreamReap(streams)
    /\ Reap(slots, total_size)

(***************************************************************************)
(* FileCache::write_to_cache_thread (file.rs:736-846).  The task receives  *)
(* what download_thread sends: consecutive chunks of the URL's content,    *)
(* cut anywhere, none reaching past the size download_thread was given     *)
(* (its assertion, file.rs:502), and then the end of the channel.          *)
(***************************************************************************)
\* The match at file.rs:772-786: the download cap, or None to return.
WriterDownloadSize(f, s) ==
    IF f.status = "Downloading" /\ f.truncate # None THEN f.truncate
    ELSE IF f.status = "Downloading" /\ OwnedElsewhere(s, TRUE) THEN f.file_size
    ELSE None

\* The closure `complete` (file.rs:746-768), given the next epoch stamp.
WriterComplete(f, stamp) ==
    IF f.status = "Downloading" /\ f.truncate # None
    THEN QueueUploadStatus(f, stamp)
    ELSE [f EXCEPT !.status = "Available", !.truncate = None]

\* The slot after `complete` by the task that received src, with the record
\* of a completion that queued an upload.
WriterCompleted(f, stamp, src) ==
    [WriterComplete(f, stamp) EXCEPT
        !.completion = IF f.status = "Downloading" /\ f.truncate # None
                       THEN [stamp |-> stamp, src |-> src, cap |-> f.truncate,
                             file_size |-> f.file_size]
                       ELSE @]

\* What queue_upload spawns and installs when the step queues an upload.
Spawned(queued, s) ==
    /\ uploaders' = IF queued THEN uploaders \cup {SpawnUploader(s, NextStamp)}
                    ELSE uploaders
    /\ epochs' = IF queued THEN Append(epochs, NewEpoch(s)) ELSE epochs

WriterChunk(s, n) ==
    /\ s \in DOMAIN wtask
    /\ LET w        == wtask[s]
           f        == slots[s]
           ds       == WriterDownloadSize(f, s)
           chunk    == SubSeq(w.src, w.rcvd + 1, w.rcvd + n)
           rest_len == Max(ds - w.pos, 0)
           kept     == SubSeq(chunk, 1, Min(rest_len, n))
           pos      == w.pos + Len(kept)
           written  == [f EXCEPT !.cache_file =
                            IF kept # <<>> THEN WriteAt(@, w.pos, kept) ELSE @]
           finished == ds # None /\ pos >= ds
           queued   == finished /\ f.truncate # None
       IN  /\ w.rcvd + n <= Len(w.src)
           /\ w.rcvd + n <= w.dl_size
           /\ queued => NextStamp <= bound.epochs
           /\ wtask' = IF ds = None \/ finished
                       THEN [x \in DOMAIN wtask \ {s} |-> wtask[x]]
                       ELSE [wtask EXCEPT ![s].pos = pos, ![s].rcvd = @ + n]
           /\ Spawned(queued, s)
           /\ Pending
           /\ UNCHANGED <<bound, config, inodes, streams, remote, next_tag, cache, handles, ops,
                          events, failures>>
           /\ Reap(IF ds = None THEN slots
                   ELSE IF finished
                   THEN [slots EXCEPT ![s] = WriterCompleted(
                            [written EXCEPT !.available_size = f.file_size],
                            NextStamp, w.src)]
                   ELSE [slots EXCEPT ![s] =
                            [written EXCEPT !.available_size = pos]],
                   total_size)

\* The channel ended (file.rs:823-845).
WriterClosed(s) ==
    /\ s \in DOMAIN wtask
    /\ LET w      == wtask[s]
           f      == slots[s]
           alive  == f.status = "Downloading"
           ds     == IF f.truncate # None THEN f.truncate ELSE f.file_size
           failed == alive /\ w.pos < ds
           queued == alive /\ ~failed /\ f.truncate # None
       IN  /\ queued => NextStamp <= bound.epochs
           /\ wtask' = [x \in DOMAIN wtask \ {s} |-> wtask[x]]
           /\ Spawned(queued, s)
           /\ Pending
           /\ UNCHANGED <<bound, config, inodes, streams, remote, next_tag, cache, handles, ops,
                          events, failures>>
           /\ Reap(IF ~alive THEN slots
                   ELSE IF failed
                   THEN [slots EXCEPT ![s].status = "DownloadFailed",
                                      ![s].truncate = None]
                   ELSE [slots EXCEPT ![s] = WriterCompleted(f, NextStamp, w.src)],
                   total_size)

\* download_thread receives a chunk that takes its pos past the file_size it
\* was given: `assert!(pos <= file_size)` fails (file.rs:501-502), the task
\* dies with the chunk unsent and drops chunk_tx, and the writer task finds
\* the channel ended.
DownloadAsserted(s, n) ==
    /\ s \in DOMAIN wtask
    /\ wtask[s].rcvd < wtask[s].dl_size
    /\ wtask[s].rcvd + n <= Len(wtask[s].src)
    /\ wtask[s].rcvd + n > wtask[s].dl_size
    /\ WriterClosed(s)

\* download_thread returns without a fault of the transport: it has sent
\* file_size bytes (file.rs:514), or the remote has no byte left for the
\* next Range request and the retries run out (file.rs:492-494).
DownloadEnded(s) ==
    /\ s \in DOMAIN wtask
    /\ \/ wtask[s].rcvd = wtask[s].dl_size
       \/ wtask[s].rcvd = Len(wtask[s].src)
    /\ WriterClosed(s)

(***************************************************************************)
(* The uploader task queue_upload spawns (file.rs:972-1064).               *)
(***************************************************************************)
SetTask(t, u) == (uploaders \ {t}) \cup {u}

\* done_tx outlives the task.
CloseDoneKept(t, value) == epochs

\* The task returns: done_tx is dropped, which closes the watch channel.
CloseDone(t, value) ==
    [epochs EXCEPT ![t.init_lock_mtime].done = value]

\* The snapshot read under the guard (file.rs:983-986).
UploadSnapshotHead(f) == ReadAt(f.cache_file, 0, Min(f.file_size, 1))

UploadSnapshot(f) == ReadAt(f.cache_file, 0, f.file_size)

\* "Check not changed since last lock" (file.rs:976-990), then the call of
\* upload_small; a superseded task returns.
UploaderLocked(t) ==
    /\ Pending
    /\ UNCHANGED <<bound, config, inodes, streams, remote, next_tag, cache, handles, wtask, ops,
                   events, failures>>
    /\ IF EpochCurrent(slots[t.slot], t)
       THEN /\ uploaders' = SetTask(t, [t EXCEPT !.pc = "upload",
                                 !.data = UploadSnapshot(slots[t.slot])])
            /\ epochs' = epochs
            /\ slots' = [slots EXCEPT ![t.slot].burst_calls = @ + 1]
            /\ total_size' = total_size
       ELSE /\ uploaders' = uploaders \ {t}
            /\ epochs' = CloseDone(t, "false")
            /\ Reap(slots, total_size)

\* time::timeout(flush_delay, flush_rx) ends because flush_delay has passed
\* (file.rs:973), and the task takes the guard.
UploaderTimeout(t) ==
    /\ t.pc = "delay"
    /\ FlushRxPending(slots[t.slot], t)
    /\ UploaderLocked(t)

\* ... or because flush_rx resolved: flush_file sent on flush_tx, or the
\* sender was dropped with the status that held it.
UploaderWake(t) ==
    /\ t.pc = "delay"
    /\ ~FlushRxPending(slots[t.slot], t)
    /\ UploaderLocked(t)

\* The next round of the loop after retry_delay (file.rs:1010, 976).
UploaderCheck(t) ==
    /\ t.pc = "check"
    /\ UploaderLocked(t)

\* upload_small succeeds: the remote stores the payload under a new CTag.
UploadOk(t) ==
    /\ t.pc = "upload"
    /\ remote' = [remote EXCEPT ![slots[t.slot].item_id] =
                      [c_tag |-> next_tag, data |-> t.data]]
    /\ next_tag' = next_tag + 1
    /\ uploaders' = SetTask(t, [t EXCEPT !.pc = "uploaded", !.c_tag = next_tag])
    /\ epochs' = [epochs EXCEPT ![t.init_lock_mtime].uploaded = TRUE,
                                ![t.init_lock_mtime].c_tag = next_tag,
                                ![t.init_lock_mtime].size = Len(t.data)]
    /\ Pending
    /\ UNCHANGED <<bound, config, inodes, streams, slots, cache, total_size, handles, wtask, ops,
                   events, failures>>

\* upload_small fails and the task gives up.
UploadErrGiveUp(t) ==
    /\ t.pc = "upload"
    /\ failures < bound.failures
    /\ failures' = failures + 1
    /\ uploaders' = uploaders \ {t}
    /\ epochs' = CloseDone(t, "false")
    /\ Pending
    /\ UNCHANGED <<bound, config, inodes, streams, remote, next_tag, cache, handles,
                   wtask, ops, events>>
    /\ Reap(slots, total_size)

\* upload_small fails: sleep retry_delay and loop (file.rs:1002-1012).
UploadErr(t) ==
    /\ t.pc = "upload"
    /\ failures < bound.failures
    /\ failures' = failures + 1
    /\ uploaders' = SetTask(t, [t EXCEPT !.pc = "check", !.data = <<>>])
    /\ slots' = [slots EXCEPT ![t.slot].burst_clean = FALSE]
    /\ Pending
    /\ UNCHANGED <<bound, config, inodes, streams, remote, next_tag, cache, total_size, handles,
                   wtask, epochs, ops, events>>

\* The critical section after a successful upload (file.rs:1026-1050).
UploaderFinish(t) ==
    /\ t.pc = "uploaded"
    /\ Pending
    /\ UNCHANGED <<bound, config, inodes, streams, remote, next_tag, cache, handles, wtask, ops,
                   events, failures>>
    /\ IF EpochCurrent(slots[t.slot], t)
       THEN /\ uploaders' = SetTask(t, [t EXCEPT !.pc = "emit"])
            /\ epochs' = epochs
            /\ slots' = [slots EXCEPT ![t.slot].status = "Available",
                                      ![t.slot].lock_mtime = 0,
                                      ![t.slot].flush_tx = FALSE,
                                      ![t.slot].c_tag = t.c_tag]
            /\ total_size' = total_size
       ELSE /\ uploaders' = uploaders \ {t}
            /\ epochs' = CloseDone(t, "false")
            /\ Reap(slots, total_size)

\* The event of the upload (file.rs:1052-1059).
UpdateFileOfSlot(f, t) ==
    [item_id |-> f.item_id, size |-> f.file_size, c_tag |-> t.c_tag]

UpdateFile(f, t) ==
    [item_id |-> f.item_id, size |-> Len(t.data), c_tag |-> t.c_tag]

\* event_tx.send, done_tx.send(true), return (file.rs:1052-1062).
UploaderEmit(t) ==
    /\ t.pc = "emit"
    /\ events' = Append(events, UpdateFile(slots[t.slot], t))
    /\ uploaders' = uploaders \ {t}
    /\ epochs' = CloseDone(t, "true")
    /\ Pending
    /\ UNCHANGED <<bound, config, inodes, streams, remote, next_tag, cache, handles, wtask, ops,
                   failures>>
    /\ Reap(slots, total_size)

(***************************************************************************)
(* FileCache::read (file.rs:848-889), reached through FilePool::read.      *)
(***************************************************************************)
\* The result of the part after the status checks (file.rs:878-888).
\* (end - offset) as usize is a u64 subtraction: below zero it overflows.
ReadServe(f, offset, end0) ==
    LET end == Min(end0, f.file_size)
    IN  IF end < offset THEN [res |-> "Overflow", val |-> <<>>]
        ELSE [res |-> "Ok", val |-> ReadAt(f.cache_file, offset, end)]

\* The first critical section: a result, or Wait to await available_size.
ReadLockedStatusFirst(f, offset, size) ==
    CASE f.status = "Invalidated" -> [res |-> "Invalidated", val |-> <<>>]
      [] f.status = "DownloadFailed" -> [res |-> "DownloadFailed", val |-> <<>>]
      [] f.file_size <= offset \/ size = 0 -> [res |-> "Ok", val |-> <<>>]
      [] f.status = "Downloading" /\ f.available_size < offset + size ->
            [res |-> "Wait", val |-> <<>>]
      [] OTHER -> ReadServe(f, offset, offset + size)

ReadLocked(f, offset, size) ==
    IF f.file_size <= offset \/ size = 0 THEN [res |-> "Ok", val |-> <<>>]
    ELSE CASE f.status \in {"Available", "Dirty"} ->
                ReadServe(f, offset, offset + size)
           [] f.status = "Invalidated" -> [res |-> "Invalidated", val |-> <<>>]
           [] f.status = "DownloadFailed" ->
                [res |-> "DownloadFailed", val |-> <<>>]
           [] f.status = "Downloading" /\ offset + size <= f.available_size ->
                ReadServe(f, offset, offset + size)
           [] OTHER -> [res |-> "Wait", val |-> <<>>]

\* The critical section after the wait (file.rs:867-888).
ReadResumed(f, offset, end) ==
    CASE f.status = "Invalidated" -> [res |-> "Invalidated", val |-> <<>>]
      [] f.status = "DownloadFailed" -> [res |-> "DownloadFailed", val |-> <<>>]
      [] OTHER -> ReadServe(f, offset, end)

Read(k, offset, size) ==
    /\ handles[k].kind = "Cached"
    /\ LET s == handles[k].slot
           r == ReadLocked(slots[s], offset, size)
       IN  IF r.res = "Wait"
           THEN /\ CanSuspend
                /\ ops' = ops \cup
                      {[Call("read", "wait_available", slots[s].item_id, s, {s})
                           EXCEPT !.offset = offset, !.size = size]}
                /\ Pending
           ELSE /\ ReturnsOf("read", slots[s].item_id, s, <<offset, size>>,
                             r.res, r.val)
                /\ ops' = ops
    /\ UNCHANGED <<bound, config, inodes, streams, remote, next_tag, slots, cache, total_size, handles,
                   wtask, uploaders, epochs, events, failures>>

\* `while rx.changed().await.is_ok() && *rx.borrow() < end {}` is over.
ReadResume(o) ==
    /\ o.op = "read" /\ o.pc = "wait_available"
    /\ ~PosTxAlive(o.slot) \/ slots[o.slot].available_size >= o.offset + o.size
    /\ LET r == ReadResumed(slots[o.slot], o.offset, o.offset + o.size)
       IN  ReturnsOf("read", o.id, o.slot, <<o.offset, o.size>>, r.res, r.val)
    /\ ops' = ops \ {o}
    /\ UNCHANGED <<bound, config, inodes, streams, remote, next_tag, cache, handles, wtask, uploaders,
                   epochs, events, failures>>
    /\ Reap(slots, total_size)

(***************************************************************************)
(* FileCache::write (file.rs:891-953), reached through FilePool::write.    *)
(***************************************************************************)
\* The checks of the first critical section (file.rs:900-914): an error,
\* Wait for a slot that is downloading, or Go.
WriteEntryAnyStatus(f, offset, data) ==
    IF config.upload.max_size < offset + Len(data) THEN "FileTooLarge"
    ELSE IF f.status = "Downloading" THEN "Wait" ELSE "Go"

WriteEntryStatusFirst(f, offset, data) ==
    CASE f.status = "Invalidated"    -> "Invalidated"
      [] f.status = "DownloadFailed" -> "DownloadFailed"
      [] f.status = "Downloading"    -> "Wait"
      [] OTHER -> IF config.upload.max_size < offset + Len(data)
                  THEN "FileTooLarge" ELSE "Go"

\* The checks without the wait for the download.
WriteEntryNoWait(f, offset, data) ==
    IF config.upload.max_size < offset + Len(data) THEN "FileTooLarge"
    ELSE CASE f.status \in {"Available", "Dirty", "Downloading"} -> "Go"
           [] f.status = "Invalidated"    -> "Invalidated"
           [] OTHER                       -> "DownloadFailed"

WriteEntry(f, offset, data) ==
    IF config.upload.max_size < offset + Len(data) THEN "FileTooLarge"
    ELSE CASE f.status \in {"Available", "Dirty"} -> "Go"
           [] f.status = "Invalidated"    -> "Invalidated"
           [] f.status = "DownloadFailed" -> "DownloadFailed"
           [] OTHER                       -> "Wait"

\* The match once the status is settled (file.rs:917-924).
WriteCheckInvalidatedOnly(f) ==
    CASE f.status = "Invalidated"    -> "Invalidated"
      [] f.status = "Downloading"    -> "Unreachable"
      [] OTHER                       -> "Go"

WriteCheck(f) ==
    CASE f.status = "Invalidated"    -> "Invalidated"
      [] f.status = "DownloadFailed" -> "DownloadFailed"
      [] f.status = "Downloading"    -> "Unreachable"
      [] OTHER                       -> "Go"

\* queue_upload, the bytes and the new size (file.rs:922-945).
WriteApplyKeepSize(f, offset, data, stamp) ==
    [QueueUploadStatus(f, stamp) EXCEPT
        !.cache_file = WriteAt(f.cache_file, offset, data)]

WriteApply(f, offset, data, stamp) ==
    [QueueUploadStatus(f, stamp) EXCEPT
        !.cache_file = WriteAt(f.cache_file, offset, data),
        !.file_size  = Max(f.file_size, offset + Len(data))]

\* What the write adds to total_size (file.rs:933-938).
WriteGrowth(f, offset, data) ==
    IF f.file_size < Max(f.file_size, offset + Len(data))
    THEN Max(f.file_size, offset + Len(data)) - f.file_size
    ELSE 0

\* The critical section that performs the write of call o on slot s.
WriteGo(s, offset, data) ==
    /\ NextStamp <= bound.epochs
    /\ Spawned(TRUE, s)
    /\ ReturnsOf("write", slots[s].item_id, s, <<offset, data>>, "Ok",
                 <<Max(slots[s].file_size, offset + Len(data))>>)
    /\ Reap([slots EXCEPT ![s] = WriteApply(@, offset, data, NextStamp)],
            U64Add(total_size, WriteGrowth(slots[s], offset, data)))

Write(k, offset, data) ==
    /\ handles[k].kind = "Cached"
    /\ UNCHANGED <<bound, config, inodes, streams, remote, next_tag, cache, handles, wtask, events,
                   failures>>
    /\ LET s == handles[k].slot
           e == WriteEntry(slots[s], offset, data)
       IN  CASE e = "Wait" ->
                  /\ CanSuspend
                  /\ ops' = ops \cup
                        {[Call("write", "wait_download", slots[s].item_id, s, {s})
                             EXCEPT !.offset = offset, !.data = data]}
                  /\ Pending
                  /\ UNCHANGED <<slots, total_size, uploaders, epochs>>
             [] e = "Go" ->
                  /\ ops' = ops
                  /\ WriteGo(s, offset, data)
             [] OTHER ->
                  /\ ReturnsOf("write", slots[s].item_id, s, <<offset, data>>,
                               e, <<>>)
                  /\ UNCHANGED <<slots, total_size, uploaders, epochs, ops>>

\* `while rx.changed().await.is_ok() {}` is over: pos_tx is gone.
WriteResume(o) ==
    /\ o.op = "write" /\ o.pc = "wait_download"
    /\ ~PosTxAlive(o.slot)
    /\ ops' = ops \ {o}
    /\ UNCHANGED <<bound, config, inodes, streams, remote, next_tag, cache, handles, wtask, events,
                   failures>>
    /\ LET c == WriteCheck(slots[o.slot])
       IN  IF c = "Go"
           THEN WriteGo(o.slot, o.offset, o.data)
           ELSE /\ ReturnsOf("write", o.id, o.slot, <<o.offset, o.data>>,
                             c, <<>>)
                /\ UNCHANGED <<uploaders, epochs>>
                /\ Reap(slots, total_size)

(***************************************************************************)
(* FilePool::truncate_file (file.rs:208-281).                              *)
(***************************************************************************)
\* The arm for a slot that is downloading (file.rs:226-238).
TruncateDownloadingNewCap(f, new_size) ==
    [f EXCEPT !.truncate   = new_size,
              !.file_size  = new_size,
              !.cache_file = SetLen(f.cache_file, new_size)]

TruncateDownloading(f, new_size) ==
    [f EXCEPT !.truncate   = Min(IF f.truncate # None THEN f.truncate
                                 ELSE f.file_size, new_size),
              !.file_size  = new_size,
              !.cache_file = SetLen(f.cache_file, new_size)]

\* The arm for Available and Dirty (file.rs:239-255).
TruncateCached(f, new_size, stamp) ==
    [QueueUploadStatus(f, stamp) EXCEPT
        !.file_size  = new_size,
        !.cache_file = SetLen(f.cache_file, new_size)]

\* What truncate_file adds to total_size for a slot it resizes in place.
TruncateGrowth(f, new_size) == 0

\* The size check and the map lookup (file.rs:216-224); on a miss the call
\* goes on to fetch_meta (file.rs:260-261).
TruncateStart(id, new_size) ==
    /\ LET s == CacheLookup(cache, id)
       IN  IF new_size > config.disk_cache.max_cached_file_size
           THEN /\ Returns("truncate", id, NoSlot, "FileTooLarge", <<>>)
                /\ UNCHANGED <<cache, ops>>
           ELSE /\ CanSuspend
                /\ cache' = CacheTouch(cache, id)
                /\ Pending
                /\ ops' = ops \cup
                     {IF s # NoSlot
                      THEN [Call("truncate", "lock", id, s, {s})
                               EXCEPT !.size = new_size]
                      ELSE [Call("truncate", "alloc", id, NoSlot, {})
                               EXCEPT !.size = new_size,
                                      !.remote_size = FetchMeta(id).file_size,
                                      !.c_tag = FetchMeta(id).c_tag,
                                      !.data = FetchMeta(id).src]}
    /\ UNCHANGED <<bound, config, inodes, streams, remote, next_tag, slots, total_size, handles, wtask,
                   uploaders, epochs, events, failures>>

\* The critical section on the slot found in the map (file.rs:224-257).
TruncateLocked(o) ==
    /\ o.op = "truncate" /\ o.pc = "lock"
    /\ UNCHANGED <<bound, config, inodes, streams, remote, next_tag, cache, handles, wtask, events,
                   failures>>
    /\ LET f == slots[o.slot]
       IN  CASE f.status = "Downloading" ->
                  /\ Returns("truncate", o.id, o.slot, "Ok", <<>>)
                  /\ ops' = ops \ {o}
                  /\ UNCHANGED <<uploaders, epochs>>
                  /\ Reap([slots EXCEPT ![o.slot] =
                              TruncateDownloading(f, o.size)],
                          U64Add(total_size, TruncateGrowth(f, o.size)))
             [] f.status \in {"Available", "Dirty"} ->
                  /\ NextStamp <= bound.epochs
                  /\ Returns("truncate", o.id, o.slot, "Ok", <<>>)
                  /\ ops' = ops \ {o}
                  /\ Spawned(TRUE, o.slot)
                  /\ Reap([slots EXCEPT ![o.slot] =
                              TruncateCached(f, o.size, NextStamp)],
                          U64Add(total_size, TruncateGrowth(f, o.size)))
             [] OTHER ->
                  /\ ops' = (ops \ {o}) \cup
                       {[Call("truncate", "alloc", o.id, NoSlot, {})
                            EXCEPT !.size = o.size,
                                   !.remote_size = FetchMeta(o.id).file_size,
                                   !.c_tag = FetchMeta(o.id).c_tag,
                                   !.data = FetchMeta(o.id).src]}
                  /\ Pending
                  /\ UNCHANGED <<uploaders, epochs>>
                  /\ Reap(slots, total_size)

\* try_alloc_and_fetch with the pending truncate (file.rs:268-280).
TruncateAlloc(o) ==
    /\ o.op = "truncate" /\ o.pc = "alloc"
    /\ LET r == TryAllocAndFetch(o.id, o.size)
       IN  /\ r.fresh => Len(slots) < bound.slots
           /\ cache' = r.cache
           /\ wtask' = AllocWriters(r, o.size, o.data)
           /\ ops' = ops \ {o}
           /\ Returns("truncate", o.id, r.slot,
                         IF r.slot # NoSlot THEN "Ok" ELSE "FileTooLarge", <<>>)
           /\ UNCHANGED <<bound, config, inodes, streams, remote, next_tag, handles, uploaders, epochs,
                          events, failures>>
           /\ Reap(AllocSlots(r, o.id, o.size, o.c_tag, Min(o.remote_size, o.size)),
                   AllocTotal(r, o.size))

(***************************************************************************)
(* FilePool::flush_file (file.rs:335-373).                                 *)
(***************************************************************************)
\* DiskCache::get (file.rs:543-545) and the `if let` around it.
FlushStart(id) ==
    /\ LET s == CacheLookup(cache, id)
       IN  IF s = NoSlot
           THEN /\ Returns("flush", id, NoSlot, "Ok", Unflushed(id))
                /\ UNCHANGED <<cache, ops>>
           ELSE /\ CanSuspend
                /\ cache' = CacheTouch(cache, id)
                /\ ops' = ops \cup {[Call("flush", "lock", id, s, {s})
                                        EXCEPT !.need = Unflushed(id)]}
                /\ Pending
    /\ UNCHANGED <<bound, config, inodes, streams, remote, next_tag, slots, total_size, handles, wtask,
                   uploaders, epochs, events, failures>>

\* One pass of the loop under the guard (file.rs:350-362): a result, or the
\* wait on done_rx after taking and firing flush_tx.
FlushLoop(o) ==
    LET f == slots[o.slot]
    IN  IF f.status = "Dirty"
        THEN /\ ops' = (ops \ {o}) \cup
                    {[o EXCEPT !.pc = "wait_done", !.stamp = f.lock_mtime]}
             /\ Pending
             /\ Reap([slots EXCEPT ![o.slot].flush_tx = FALSE,
                         ![o.slot].burst_clean = @ /\ ~f.flush_tx],
                     total_size)
        ELSE /\ ops' = ops \ {o}
             /\ Returns("flush", o.id, o.slot,
                           CASE f.status = "DownloadFailed" -> "DownloadFailed"
                             [] f.status = "Downloading"    -> "Unreachable"
                             [] OTHER                       -> "Ok",
                           o.need)
             /\ Reap(slots, total_size)

\* The first critical section (file.rs:338-349).
FlushLocked(o) ==
    /\ o.op = "flush" /\ o.pc = "lock"
    /\ UNCHANGED <<bound, config, inodes, streams, remote, next_tag, cache, handles, wtask, uploaders,
                   epochs, events, failures>>
    /\ IF slots[o.slot].status = "Downloading"
       THEN /\ ops' = (ops \ {o}) \cup {[o EXCEPT !.pc = "wait_download"]}
            /\ Pending
            /\ UNCHANGED <<slots, total_size>>
       ELSE FlushLoop(o)

\* The available_size watch has closed (file.rs:345-346).
FlushDownloaded(o) ==
    /\ o.op = "flush" /\ o.pc = "wait_download"
    /\ ~PosTxAlive(o.slot)
    /\ UNCHANGED <<bound, config, inodes, streams, remote, next_tag, cache, handles, wtask, uploaders,
                   epochs, events, failures>>
    /\ FlushLoop(o)

\* done_rx has closed (file.rs:363-368): success on true, else once more.
FlushDone(o) ==
    /\ o.op = "flush" /\ o.pc = "wait_done"
    /\ epochs[o.stamp].done # "open"
    /\ UNCHANGED <<bound, config, inodes, streams, remote, next_tag, cache, handles, wtask, uploaders,
                   epochs, events, failures>>
    /\ IF epochs[o.stamp].done = "true"
       THEN /\ ops' = ops \ {o}
            /\ Returns("flush", o.id, o.slot, "Ok", o.need)
            /\ Reap(slots, total_size)
       ELSE FlushLoop(o)

(***************************************************************************)
(* DiskCache::sync_items (file.rs:631-670) behind FilePool::sync_items.    *)
(***************************************************************************)
Invalidate(f) ==
    [f EXCEPT !.status = "Invalidated", !.truncate = None,
              !.lock_mtime = 0, !.flush_tx = FALSE]

\* A DriveItem of the feed: kind is "folder", "deleted" or "file".
Item(id, kind, c_tag) == [id |-> id, kind |-> kind, c_tag |-> c_tag]

\* The loop body without the comparison of the CTags.
OutdatedDeletedOnly(c, item) ==
    /\ item.kind = "deleted"
    /\ CacheLookup(c, item.id) # NoSlot

\* Whether the loop body removes the entry of the item (file.rs:636-664).
Outdated(c, item) ==
    /\ item.kind # "folder"
    /\ CacheLookup(c, item.id) # NoSlot
    /\ \/ item.kind = "deleted"
       \/ slots[CacheLookup(c, item.id)].c_tag # item.c_tag

\* cache.remove(&id) of an outdated entry (file.rs:647, 662).
SyncRemoveKeep(c, id) == c

SyncRemove(c, id) == CacheRemove(c, id)

\* The loop under the map lock: the map afterwards and the removed slots.
RECURSIVE SyncLoop(_, _, _)
SyncLoop(c, items, outdated) ==
    IF items = <<>> THEN [cache |-> c, outdated |-> outdated]
    ELSE LET item == Head(items)
         IN  IF item.kind = "folder" THEN SyncLoop(c, Tail(items), outdated)
             ELSE IF Outdated(c, item)
             THEN SyncLoop(SyncRemove(c, item.id), Tail(items),
                           Append(outdated, CacheLookup(c, item.id)))
             ELSE SyncLoop(CacheTouch(c, item.id), Tail(items), outdated)

Range(q) == {q[i] : i \in 1..Len(q)}

SyncItems(items) ==
    /\ LET r == SyncLoop(cache, items, <<>>)
       IN  /\ cache' = r.cache
           /\ IF r.outdated = <<>>
              THEN ops' = ops
              ELSE /\ CanSync
                   /\ ops' = ops \cup
                        {[Call("sync", "invalidate", "", NoSlot,
                               Range(r.outdated))
                             EXCEPT !.queue = r.outdated]}
    /\ Pending
    /\ UNCHANGED <<bound, config, inodes, streams, remote, next_tag, handles, wtask, uploaders,
                   epochs, events, failures>>
    /\ Reap(slots, total_size)

\* One round of `for file in outdated` (file.rs:667-669).
SyncInvalidate(o) ==
    /\ o.op = "sync" /\ o.pc = "invalidate"
    /\ ops' = (ops \ {o}) \cup
          (IF Len(o.queue) = 1 THEN {}
           ELSE {[o EXCEPT !.queue = Tail(@), !.holds = Range(Tail(o.queue))]})
    /\ Pending
    /\ UNCHANGED <<bound, config, inodes, streams, remote, next_tag, cache, handles, wtask, uploaders,
                   epochs, events, failures>>
    /\ Reap([slots EXCEPT ![Head(o.queue)] = Invalidate(@)], total_size)

(***************************************************************************)
(* FilePool::open_create_empty (file.rs:185-206) with                      *)
(* DiskCache::insert_empty (file.rs:610-629).                              *)
(***************************************************************************)
\* upload_small(item_loc, Vec::new()): the remote creates or empties id.
CreateUpload(id) ==
    /\ CanSuspend
    /\ FreeKeys # {}
    /\ Len(slots) < bound.slots
    /\ remote' = [remote EXCEPT ![id] = [c_tag |-> next_tag, data |-> <<>>]]
    /\ next_tag' = next_tag + 1
    /\ ops' = ops \cup {[Call("create", "insert", id, NoSlot, {})
                            EXCEPT !.c_tag = next_tag]}
    /\ Pending
    /\ UNCHANGED <<bound, config, inodes, streams, slots, cache, total_size, handles, wtask,
                   uploaders, epochs, events, failures>>

\* The map section of insert_empty (file.rs:611-624); without an old slot
\* the call completes with the handle (file.rs:628, 201-205).
CreateInsert(o) ==
    /\ o.op = "create" /\ o.pc = "insert"
    /\ Len(slots) < bound.slots
    /\ LET new == Len(slots) + 1
           old == CacheLookup(cache, o.id)
       IN  /\ cache' = CacheInsert(cache, o.id, new, config.disk_cache.max_files)
           /\ IF old = NoSlot
              THEN /\ FreeKeys # {}
                   /\ handles' = InsertHandle(Cached(new))
                   /\ Returns("create", o.id, new, "Ok", <<>>)
                   /\ ops' = ops \ {o}
              ELSE /\ handles' = handles
                   /\ Pending
                   /\ ops' = (ops \ {o}) \cup
                        {[o EXCEPT !.pc = "invalidate_old", !.slot = new,
                                   !.queue = <<old>>, !.holds = {old, new}]}
           /\ UNCHANGED <<bound, config, inodes, streams, remote, next_tag, wtask, uploaders, epochs,
                          events, failures>>
           /\ Reap(Append(slots, FileCacheNew(o.id, 0, o.c_tag, "Available", None)),
                   U64Add(total_size, 0))

\* `old.state.lock().await.status = Invalidated` and the handle
\* (file.rs:625-628, 201-205).
CreateInvalidate(o) ==
    /\ o.op = "create" /\ o.pc = "invalidate_old"
    /\ FreeKeys # {}
    /\ handles' = InsertHandle(Cached(o.slot))
    /\ Returns("create", o.id, o.slot, "Ok", <<>>)
    /\ ops' = ops \ {o}
    /\ UNCHANGED <<bound, config, inodes, streams, remote, next_tag, cache, wtask, uploaders, epochs,
                   events, failures>>
    /\ Reap([slots EXCEPT ![Head(o.queue)] = Invalidate(@)], total_size)

(***************************************************************************)
(* Streaming handles: download_thread (file.rs:456-516) feeding the chunk  *)
(* channel, and FilePool::read on File::Streaming (file.rs:297-301) with   *)
(* FileStreamState::read (file.rs:414-453).                                *)
(***************************************************************************)
\* What the cache and the uploads are made of: left alone by the streams
\* and by the inode pool.
cacheVars == <<remote, next_tag, slots, cache, total_size, wtask, uploaders,
               epochs, events, failures>>

\* The thread sends the next n bytes as one chunk (file.rs:500-503); send
\* waits while the channel is full.
StreamSend(i, n) ==
    /\ streams[i].tx
    /\ streams[i].sent + n <= Len(streams[i].src)
    /\ Len(streams[i].chan) < config.download.stream_buffer_chunks
    /\ streams' = [streams EXCEPT
          ![i].chan = Append(@, SubSeq(streams[i].src, streams[i].sent + 1,
                                       streams[i].sent + n)),
          ![i].sent = @ + n]
    /\ Pending
    /\ UNCHANGED <<bound, config, inodes, cacheVars, handles, ops>>

\* The thread returns, at the end of the content or when its retries are
\* used up (file.rs:492-494, 512-516): the sender is dropped.
StreamEnd(i) ==
    /\ streams[i].tx
    /\ streams' = [streams EXCEPT ![i].tx = FALSE]
    /\ Pending
    /\ UNCHANGED <<bound, config, inodes, cacheVars, handles, ops>>

(***************************************************************************)
(* download_thread at the grain of its requests (file.rs:456-516).  sent   *)
(* is pos, tries the counter of the retry loop, pc the place of the task:  *)
(* "request" before a GET, "body" while it reads the chunks of a 206       *)
(* response.  idle counts the requests made since the last chunk was sent. *)
(***************************************************************************)
\* One GET of the retry loop (file.rs:468-497).  ok: the response is 206;
\* otherwise tries grows, and the task returns once max_retry < tries.
DownloadRequest(i, ok) ==
    /\ streams[i].tx /\ streams[i].pc = "request"
    /\ streams[i].sent < streams[i].file_size
    /\ streams[i].idle < MaxRequests
    /\ streams' = [streams EXCEPT ![i] =
          IF ok
          THEN [@ EXCEPT !.pc = "body", !.idle = @ + 1]
          ELSE [@ EXCEPT !.tries = @ + 1, !.idle = @ + 1,
                         !.tx = ~(config.download.max_retry
                                     < streams[i].tries + 1)]]
    /\ Pending
    /\ UNCHANGED <<bound, config, inodes, cacheVars, handles, ops>>

\* `resp.chunk()` gives n bytes, sent on the channel (file.rs:499-510); the
\* assertion ends the task when the response runs past file_size.
DownloadChunk(i, n) ==
    /\ streams[i].tx /\ streams[i].pc = "body"
    /\ streams[i].sent + n <= Len(streams[i].src)
    /\ Len(streams[i].chan) < config.download.stream_buffer_chunks
    /\ streams' = [streams EXCEPT ![i] =
          IF streams[i].sent + n <= streams[i].file_size
          THEN [@ EXCEPT !.chan = Append(@, SubSeq(streams[i].src,
                                streams[i].sent + 1, streams[i].sent + n)),
                         !.sent = @ + n, !.idle = 0]
          ELSE [@ EXCEPT !.tx = FALSE]]
    /\ Pending
    /\ UNCHANGED <<bound, config, inodes, cacheVars, handles, ops>>

\* `resp.chunk().await.ok().flatten()` is None, at the end of the body or
\* at an error of it (file.rs:499): the outer loop goes on with a new
\* `tries = 0` while pos < file_size, otherwise the task returns
\* (file.rs:466-467, 514-515).
DownloadBodyEnd(i) ==
    /\ streams[i].tx /\ streams[i].pc = "body"
    /\ streams' = [streams EXCEPT ![i] =
          IF streams[i].sent < streams[i].file_size
          THEN [@ EXCEPT !.pc = "request", !.tries = 0]
          ELSE [@ EXCEPT !.tx = FALSE]]
    /\ Pending
    /\ UNCHANGED <<bound, config, inodes, cacheVars, handles, ops>>

\* `(size as u64).min(file_size - offset)` (file.rs:299): the sizes the call
\* may go on with.  For offset > file_size the u64 subtraction overflows:
\* the call panics when overflow checks are compiled in (None), otherwise
\* the difference wraps to a huge value and size stays.
StreamClamp(file_size, offset, size) ==
    IF offset <= file_size THEN {Min(size, file_size - offset)}
    ELSE {None, size}

\* The stream's lock: one read at a time goes through FileStreamState::read.
StreamLocked(i) == \E o \in ops : o.op = "stream_read" /\ o.slot = i

\* The clamp and the position check (file.rs:299, 416-423).
StreamReadStart(k, offset, size) ==
    /\ handles[k].kind = "Streaming"
    /\ ~StreamLocked(handles[k].slot)
    /\ LET i  == handles[k].slot
           st == streams[i]
       IN  \E sz \in StreamClamp(st.file_size, offset, size) :
              IF sz = None
              THEN /\ ReturnsOf("stream_read", "", i, <<offset, size>>,
                                "Overflow", <<>>)
                   /\ ops' = ops
              ELSE IF offset # st.current_pos
              THEN /\ ReturnsOf("stream_read", "", i, <<offset, size>>,
                                "NonsequentialRead", <<st.current_pos, offset>>)
                   /\ ops' = ops
              ELSE /\ CanSuspend
                   /\ ops' = ops \cup
                         {[Call("stream_read", "recv", "", i, {})
                              EXCEPT !.offset = offset, !.size = sz]}
                   /\ Pending
    /\ UNCHANGED <<bound, config, inodes, cacheVars, handles, streams>>

\* One round of the loop (file.rs:424-444): the stashed chunk or the next
\* one of the channel, or the end of a closed and empty channel.  ret_buf
\* is o.data.
StreamTake(st, o) ==
    LET stashed == st.buffer # <<>>
        ended   == ~stashed /\ st.chan = <<>>
        chunk   == IF stashed THEN st.buffer
                   ELSE IF ended THEN <<>> ELSE Head(st.chan)
        chan    == IF stashed \/ ended THEN st.chan ELSE Tail(st.chan)
        rest    == o.size - Len(o.data)
    IN  IF ended
        THEN [st |-> st, ret_buf |-> o.data, done |-> TRUE]
        ELSE IF rest < Len(chunk)
        THEN [st |-> [st EXCEPT !.chan = chan,
                          !.buffer = SubSeq(chunk, rest + 1, Len(chunk))],
              ret_buf |-> o.data \o SubSeq(chunk, 1, rest), done |-> TRUE]
        ELSE [st |-> [st EXCEPT !.chan = chan, !.buffer = <<>>],
              ret_buf |-> o.data \o chunk,
              done |-> Len(o.data \o chunk) = o.size]

\* The loop goes on with a chunk, or ends (file.rs:446-452).
StreamRecv(o) ==
    /\ o.op = "stream_read" /\ o.pc = "recv"
    /\ UNCHANGED <<bound, config, inodes, cacheVars, handles>>
    /\ LET st == streams[o.slot]
           r  == StreamTake(st, o)
       IN  /\ st.buffer # <<>> \/ st.chan # <<>> \/ ~st.tx
           /\ IF r.done
              THEN /\ ops' = ops \ {o}
                   /\ ReturnsOf("stream_read", "", o.slot, <<o.offset, o.size>>,
                                IF Len(r.ret_buf) = o.size THEN "Ok"
                                ELSE "DownloadFailed",
                                r.ret_buf)
                   /\ streams' = StreamReap([streams EXCEPT ![o.slot] =
                         [r.st EXCEPT !.current_pos = @ + Len(r.ret_buf)]])
              ELSE /\ ops' = (ops \ {o}) \cup {[o EXCEPT !.data = r.ret_buf]}
                   /\ Pending
                   /\ streams' = [streams EXCEPT ![o.slot] = r.st]

(***************************************************************************)
(* InodePool::lookup, touch and free (inode.rs:189-226).                   *)
(***************************************************************************)
\* get_item_id(parent_ino)? and the request of InodeAttr::fetch
\* (inode.rs:202-210).
LookupStart(parent_ino, item_id) ==
    /\ IF GetItemId(inodes, parent_ino) = ""
       THEN /\ ReturnsOf("lookup", item_id, NoSlot, <<parent_ino>>,
                         "InvalidInode", <<>>)
            /\ ops' = ops
       ELSE /\ CanSuspend
            /\ ops' = ops \cup {[Call("lookup", "acquire", item_id, NoSlot, {})
                                    EXCEPT !.offset = parent_ino]}
            /\ Pending
    /\ UNCHANGED <<bound, config, inodes, cacheVars, handles, streams>>

\* acquire_or_alloc of the fetched item id (inode.rs:211-219).
LookupAcquire(o, key) ==
    /\ o.op = "lookup" /\ o.pc = "acquire"
    /\ key \in AllocKeys(inodes, o.id)
    /\ inodes' = AcquireOrAlloc(inodes, o.id, key)
    /\ ops' = ops \ {o}
    /\ ReturnsOf("lookup", o.id, NoSlot, <<o.offset>>, "Ok",
                 <<KeyToIno(inodes, AcquiredKey(inodes, o.id, key))>>)
    /\ UNCHANGED <<bound, config, cacheVars, handles, streams>>

\* touch: acquire_or_alloc (inode.rs:190) ...
TouchAcquire(item_id, key) ==
    /\ CanSuspend
    /\ key \in AllocKeys(inodes, item_id)
    /\ inodes' = AcquireOrAlloc(inodes, item_id, key)
    /\ ops' = ops \cup {[Call("touch", "free", item_id, NoSlot, {})
                            EXCEPT !.offset = AcquiredKey(inodes, item_id, key)]}
    /\ Pending
    /\ UNCHANGED <<bound, config, cacheVars, handles, streams>>

\* ... and free_key(key, 1).unwrap() (inode.rs:191-192).
TouchFree(o) ==
    /\ o.op = "touch" /\ o.pc = "free"
    /\ ops' = ops \ {o}
    /\ IF PoolGet(inodes, o.offset) = None
       THEN /\ inodes' = inodes
            /\ ReturnsOf("touch", o.id, NoSlot, <<>>, "Panic", <<>>)
       ELSE /\ inodes' = FreeKey(inodes, o.offset, 1)
            /\ ReturnsOf("touch", o.id, NoSlot, <<>>, "Ok",
                         <<KeyToIno(inodes, o.offset)>>)
    /\ UNCHANGED <<bound, config, cacheVars, handles, streams>>

\* InodePool::free (inode.rs:222-226).
Free(ino, count) ==
    /\ ops' = ops
    /\ IF PoolGet(inodes, InoToKey(inodes, ino)) = None
       THEN /\ inodes' = inodes
            /\ ReturnsOf("free", "", NoSlot, <<ino, count>>, "InvalidInode", <<>>)
       ELSE /\ inodes' = FreeKey(inodes, InoToKey(inodes, ino), count)
            /\ ReturnsOf("free", "", NoSlot, <<ino, count>>, "Ok", <<>>)
    /\ UNCHANGED <<bound, config, cacheVars, handles, streams>>

(***************************************************************************)
(* InodePool::get_attr (inode.rs:228-254).                                 *)
(***************************************************************************)
\* `pool.get(key).ok_or(InvalidInode)?.attr_cache.clone()` and the await of
\* the lock of that cache (inode.rs:229-238).  The call keeps the item id
\* of the entry it found (bookkeeping).
GetAttrStart(ino) ==
    /\ IF PoolGet(inodes, InoToKey(inodes, ino)) = None
       THEN /\ ReturnsOf("get_attr", "", NoSlot, <<ino>>, "InvalidInode", <<>>)
            /\ ops' = ops
       ELSE /\ CanSuspend
            /\ ops' = ops \cup
                  {[Call("get_attr", "cache",
                         inodes.pool[InoToKey(inodes, ino)].item_id, NoSlot, {})
                       EXCEPT !.offset = ino]}
            /\ Pending
    /\ UNCHANGED <<bound, config, inodes, cacheVars, handles, streams>>

\* Under the lock (inode.rs:239-253): hit, the cached attributes are still
\* within their ttl; otherwise `pool.get(key).expect("Already checked")`
\* and the fetch of the item id found there.  val is the item whose
\* attributes the call returns.
GetAttrLocked(o, hit) ==
    /\ o.op = "get_attr" /\ o.pc = "cache"
    /\ ops' = ops \ {o}
    /\ LET key == InoToKey(inodes, o.offset)
       IN  IF hit
           THEN ReturnsOf("get_attr", o.id, NoSlot, <<o.offset>>, "Ok", <<o.id>>)
           ELSE IF PoolGet(inodes, key) = None
           THEN ReturnsOf("get_attr", o.id, NoSlot, <<o.offset>>, "Panic", <<>>)
           ELSE ReturnsOf("get_attr", o.id, NoSlot, <<o.offset>>, "Ok",
                          <<inodes.pool[key].item_id>>)
    /\ UNCHANGED <<bound, config, inodes, cacheVars, handles, streams>>

(***************************************************************************)
(* The background tasks.                                                   *)
(***************************************************************************)
ChunkLens == 1..2

\* The uploader tasks alone.
UploaderTasks ==
    \/ \E t \in uploaders : UploaderTimeout(t)
    \/ \E t \in uploaders : UploaderWake(t)
    \/ \E t \in uploaders : UploaderCheck(t)
    \/ \E t \in uploaders : UploadOk(t)
    \/ \E t \in uploaders : UploadErr(t)
    \/ \E t \in uploaders : UploaderFinish(t)
    \/ \E t \in uploaders : UploaderEmit(t)

\* The writer tasks fed by a transport that never fails: the channel ends
\* only with the download or by the assertion of download_thread.
FetchTasks ==
    \/ \E s \in DOMAIN wtask, n \in ChunkLens : WriterChunk(s, n)
    \/ \E s \in DOMAIN wtask, n \in ChunkLens : DownloadAsserted(s, n)
    \/ \E s \in DOMAIN wtask : DownloadEnded(s)

\* The writer tasks alone.
WriterTasks ==
    \/ \E s \in DOMAIN wtask, n \in ChunkLens : WriterChunk(s, n)
    \/ \E s \in DOMAIN wtask : WriterClosed(s)

Tasks ==
    \/ \E s \in DOMAIN wtask, n \in ChunkLens : WriterChunk(s, n)
    \/ \E s \in DOMAIN wtask : WriterClosed(s)
    \/ \E t \in uploaders : UploaderTimeout(t)
    \/ \E t \in uploaders : UploaderWake(t)
    \/ \E t \in uploaders : UploaderCheck(t)
    \/ \E t \in uploaders : UploadOk(t)
    \/ \E t \in uploaders : UploadErr(t)
    \/ \E t \in uploaders : UploaderFinish(t)
    \/ \E t \in uploaders : UploaderEmit(t)

(***************************************************************************)
(* Spec: one file, written, truncated and flushed through FilePool while   *)
(* the sync feed reports changes of it.                                    *)
(***************************************************************************)
(* The calls of the FilePool API, over the item ids and arguments given.   *)
(***************************************************************************)
Opens(ids) ==
    \/ \E id \in ids : OpenHit(id)
    \/ \E id \in ids : OpenMiss(id, TRUE)
    \/ \E o \in ops : OpenAlloc(o)
    \/ \E k \in DOMAIN handles : Close(k)

Writes(offsets, datas) ==
    \/ \E k \in DOMAIN handles, offset \in offsets, data \in datas :
          Write(k, offset, data)
    \/ \E o \in ops : WriteResume(o)

Reads(offsets, sizes) ==
    \/ \E k \in DOMAIN handles, offset \in offsets, size \in sizes :
          Read(k, offset, size)
    \/ \E o \in ops : ReadResume(o)

Truncates(ids, new_sizes) ==
    \/ \E id \in ids, new_size \in new_sizes : TruncateStart(id, new_size)
    \/ \E o \in ops : TruncateLocked(o)
    \/ \E o \in ops : TruncateAlloc(o)

Flushes(ids) ==
    \/ \E id \in ids : FlushStart(id)
    \/ \E o \in ops : FlushLocked(o)
    \/ \E o \in ops : FlushDownloaded(o)
    \/ \E o \in ops : FlushDone(o)

\* The feed reports one item at a time: a folder, a deletion, or a file
\* whose CTag is the initial one or the one of the first upload.
Items(ids) == {Item(id, kind, c_tag) : id \in ids,
                 kind \in {"folder", "deleted", "file"}, c_tag \in {1, 3}}

Syncs(ids) ==
    \/ \E item \in Items(ids) : SyncItems(<<item>>)
    \/ \E o \in ops : SyncInvalidate(o)

Creates(ids) ==
    \/ \E id \in ids : CreateUpload(id)
    \/ \E o \in ops : CreateInsert(o)
    \/ \E o \in ops : CreateInvalidate(o)

(***************************************************************************)
(* Spec: one file is opened, written, truncated, read and flushed.         *)
(***************************************************************************)
Next ==
    \/ Tasks
    \/ Opens({"a"})
    \/ Writes({0, 1}, {<<2>>})
    \/ Reads({0, 1}, {0, 1})
    \/ Truncates({"a"}, {1})
    \/ Flushes({"a"})

Spec == Init /\ [][Next]_vars

(***************************************************************************)
(* SpecSync: one file while the sync feed reports changes of it.           *)
(***************************************************************************)
NextSync ==
    \/ Tasks
    \/ Opens({"a"})
    \/ Writes({0, 2}, {<<2>>})
    \/ Reads({0, 1}, {0, 1})
    \/ Truncates({"a"}, {1})
    \/ Flushes({"a"})
    \/ Syncs({"a"})
    \/ Creates({"a"})

SyncEpochs == 1
InitSync == InitWith([Bounds EXCEPT !.epochs = SyncEpochs])
SpecSync == InitSync /\ [][NextSync]_vars

(***************************************************************************)
(* SpecStale: the uploads of one slot race with writes, truncate_file and  *)
(* the sync feed.                                                          *)
(***************************************************************************)
NextStale ==
    \/ Tasks
    \/ Opens({"a"})
    \/ Writes({0, 1}, {<<2>>})
    \/ Truncates({"a"}, {1})
    \/ Syncs({"a"})

StaleSlots == 1
InitStale == InitWith([Bounds EXCEPT !.slots = StaleSlots])
\* The runtime keeps scheduling the tasks that can run.
SpecStale == InitStale /\ [][NextStale]_vars /\ WF_vars(Tasks)

(***************************************************************************)
(* SpecPool: two files, resized and flushed by path, compete for the       *)
(* cache.                                                                  *)
(***************************************************************************)
NextPool ==
    \/ Tasks
    \/ Truncates({"a", "b"}, {0, 2})
    \/ Flushes({"a"})

PoolSlots  == 3
PoolEpochs == 1
InitPool ==
    InitWith([Bounds EXCEPT !.slots = PoolSlots, !.epochs = PoolEpochs])
SpecPool == InitPool /\ [][NextPool]_vars

(***************************************************************************)
(* SpecDownload: a file of two bytes is read, written and resized while    *)
(* it downloads and afterwards.                                            *)
(***************************************************************************)
RemoteTwoBytes ==
    [id \in Ids |-> IF id = "a" THEN [c_tag |-> 1, data |-> <<1, 2>>]
                                ELSE [c_tag |-> 2, data |-> <<2>>]]

NextDownload ==
    \/ Tasks
    \/ Opens({"a"})
    \/ Writes({0, 1}, {<<2>>})
    \/ Reads({0, 1}, {1, 2})
    \/ Truncates({"a"}, {0, 1, 2})

DownloadSlots == 1
InitDownload ==
    /\ InitOf([Bounds EXCEPT !.slots = DownloadSlots], InitConfig,
              RemoteTwoBytes)
    /\ inodes = InodePoolNew(0)
SpecDownload == InitDownload /\ [][NextDownload]_vars

(***************************************************************************)
(* SpecRace: two calls at a time on a file that is being downloaded: a     *)
(* read or a write waits while truncate_file or another call goes on.      *)
(***************************************************************************)
RaceOps    == 2
RaceSlots  == 1
RaceEpochs == 2

NextRace ==
    \/ Tasks
    \/ Opens({"a"})
    \/ Writes({0, 1}, {<<2>>})
    \/ Reads({0, 1}, {1})
    \/ Truncates({"a"}, {0, 1})

InitRace ==
    /\ InitOf([Bounds EXCEPT !.ops = RaceOps, !.slots = RaceSlots,
                             !.epochs = RaceEpochs],
              InitConfig, RemoteTwoBytes)
    /\ inodes = InodePoolNew(0)
SpecRace == InitRace /\ [][NextRace]_vars

(***************************************************************************)
(* SpecFetch: truncate_file, open and read of one file whose download      *)
(* meets no fault of the transport.                                        *)
(***************************************************************************)
FetchEpochs == 2

NextFetch ==
    \/ FetchTasks
    \/ UploaderTasks
    \/ Opens({"a"})
    \/ Reads({0, 1}, {1, 2})
    \/ Truncates({"a"}, {0, 1, 2})

InitFetch ==
    /\ InitOf([Bounds EXCEPT !.epochs = FetchEpochs], InitConfig,
              RemoteTwoBytes)
    /\ inodes = InodePoolNew(0)
SpecFetch == InitFetch /\ [][NextFetch]_vars

(***************************************************************************)
(* SpecStream: a file too large for the cache is opened for reading and    *)
(* read through its streaming handle.                                      *)
(***************************************************************************)
RemoteThreeBytes ==
    [id \in Ids |-> IF id = "a" THEN [c_tag |-> 1, data |-> <<1, 2, 1>>]
                                ELSE [c_tag |-> 2, data |-> <<2>>]]

StreamOpens(ids) ==
    \/ \E id \in ids : OpenMiss(id, FALSE)
    \/ \E o \in ops : OpenAlloc(o)
    \/ \E k \in DOMAIN handles : Close(k)

StreamTasks(lens) ==
    \/ \E i \in DOMAIN streams, n \in lens : StreamSend(i, n)
    \/ \E i \in DOMAIN streams : StreamEnd(i)

StreamReads(offsets, sizes) ==
    \/ \E k \in DOMAIN handles, offset \in offsets, size \in sizes :
          StreamReadStart(k, offset, size)
    \/ \E o \in ops : StreamRecv(o)

NextStream ==
    \/ StreamOpens({"a"})
    \/ StreamTasks(1..3)
    \/ StreamReads(0..4, 0..3)

InitStream ==
    /\ InitOf(Bounds, InitConfig, RemoteThreeBytes)
    /\ inodes = InodePoolNew(0)
SpecStream == InitStream /\ [][NextStream]_vars

(***************************************************************************)
(* SpecRetry: the streaming download with every outcome of its requests.   *)
(***************************************************************************)
RetryTasks(lens) ==
    \/ \E i \in DOMAIN streams, ok \in BOOLEAN : DownloadRequest(i, ok)
    \/ \E i \in DOMAIN streams, n \in lens : DownloadChunk(i, n)
    \/ \E i \in DOMAIN streams : DownloadBodyEnd(i)

NextRetry ==
    \/ StreamOpens({"a"})
    \/ RetryTasks(1..2)
    \/ StreamReads(0..2, 1..2)

SpecRetry == InitStream /\ [][NextRetry]_vars

(***************************************************************************)
(* SpecFlush: flush_file of one file, one call at a time, while writes,    *)
(* the tasks and the sync feed go on.  The scheduler runs every task and   *)
(* every resumed call that stays able to run.                              *)
(***************************************************************************)
FlushOps == 2
FlushSlots == 1
FlushEpochs == 2

FlushResume ==
    \E o \in ops : FlushLocked(o) \/ FlushDownloaded(o) \/ FlushDone(o)

FlushCalls(ids) ==
    \/ \E id \in ids : (\A o \in ops : o.op # "flush") /\ FlushStart(id)
    \/ FlushResume

NextFlush ==
    \/ Tasks
    \/ Opens({"a"})
    \/ Writes({0}, {<<2>>})
    \/ Truncates({"a"}, {1})
    \/ FlushCalls({"a"})
    \/ Syncs({"a"})

InitFlush ==
    InitWith([Bounds EXCEPT !.ops = FlushOps, !.slots = FlushSlots,
                            !.epochs = FlushEpochs])
SpecFlush ==
    InitFlush /\ [][NextFlush]_vars /\ WF_vars(Tasks) /\ WF_vars(FlushResume)

(***************************************************************************)
(* SpecEvict: two files are opened, written and closed in a cache that     *)
(* holds one entry, so that opening one evicts the other.                  *)
(***************************************************************************)
EvictSlots == 3
EvictEpochs == 2

NextEvict ==
    \/ Tasks
    \/ Opens({"a", "b"})
    \/ Writes({0}, {<<2>>})
    \/ Reads({0}, {1})

InitEvict ==
    InitWith([Bounds EXCEPT !.slots = EvictSlots, !.epochs = EvictEpochs])
SpecEvict == InitEvict /\ [][NextEvict]_vars

(***************************************************************************)
(* SpecLarge: a file of two bytes is opened, written and resized with an   *)
(* upload.max_size below its size and below max_cached_file_size.          *)
(***************************************************************************)
LargeUploadMaxSize == 1

NextLarge ==
    \/ Tasks
    \/ Opens({"a"})
    \/ Writes({0, 1}, {<<2>>})
    \/ Truncates({"a"}, {1, 2})

InitLarge ==
    /\ InitOf(Bounds,
              [InitConfig EXCEPT !.upload.max_size = LargeUploadMaxSize],
              RemoteTwoBytes)
    /\ inodes = InodePoolNew(0)
SpecLarge == InitLarge /\ [][NextLarge]_vars

(***************************************************************************)
(* SpecFeed: two files are cached while the sync feed reports lists of     *)
(* changes of both.                                                        *)
(***************************************************************************)
FeedMaxFiles == 2
FeedLen      == 2

\* What the feed may report of an id: a folder or a deletion (their CTag is
\* not looked at), or a file with the CTag of either remote item.
FeedItems(ids) ==
    {Item(id, kind, 0) : id \in ids, kind \in {"folder", "deleted"}}
    \cup {Item(id, "file", c_tag) : id \in ids, c_tag \in {1, 2}}

FeedLists(ids) ==
    UNION {[1..n -> FeedItems(ids)] : n \in 0..FeedLen}

Feeds(ids) ==
    \/ \E items \in FeedLists(ids) : SyncItems(items)
    \/ \E o \in ops : SyncInvalidate(o)

NextFeed ==
    \/ WriterTasks
    \/ Opens(Ids)
    \/ Feeds(Ids)

InitFeed ==
    /\ InitOf(Bounds,
              [InitConfig EXCEPT !.disk_cache.max_files = FeedMaxFiles],
              InitRemote)
    /\ inodes = InodePoolNew(0)
SpecFeed == InitFeed /\ [][NextFeed]_vars

(***************************************************************************)
(* SpecInode: the inode pool under lookup, touch and free (forget).        *)
(***************************************************************************)
MaxRefs == 2   \* lookups are explored up to this ref_count

\* The inode numbers of the slab's keys, and one beside them.
Inos == {KeyToIno(inodes, k) : k \in InodeKeys} \cup {ROOT_INO + MaxInodes}

RefsBelow(n) == \A k \in InodeKeys : inodes.pool[k].ref_count < n

Lookups(ids) ==
    \/ \E parent_ino \in Inos, id \in ids :
          RefsBelow(MaxRefs) /\ LookupStart(parent_ino, id)
    \/ \E o \in ops, key \in InodeKeys : LookupAcquire(o, key)

Touches(ids) ==
    \/ \E id \in ids, key \in InodeKeys :
          RefsBelow(MaxRefs) /\ TouchAcquire(id, key)
    \/ \E o \in ops : TouchFree(o)

Frees(counts) == \E ino \in Inos, count \in counts : Free(ino, count)

NextInode ==
    \/ Lookups(InodeItems)
    \/ Touches(InodeItems)
    \/ Frees(0..2)

InitInode ==
    /\ InitOf(Bounds, InitConfig, InitRemote)
    /\ \E root_key \in InodeKeys : inodes = InodePoolNew(root_key)
SpecInode == InitInode /\ [][NextInode]_vars

(***************************************************************************)
(* SpecAttr: lookup, touch, free and get_attr in every order.              *)
(***************************************************************************)
GetAttrs ==
    \/ \E ino \in Inos : GetAttrStart(ino)
    \/ \E o \in ops, hit \in BOOLEAN : GetAttrLocked(o, hit)

NextAttr ==
    \/ Lookups(InodeItems)
    \/ Touches(InodeItems)
    \/ Frees(0..2)
    \/ GetAttrs

SpecAttr == InitInode /\ [][NextAttr]_vars

(***************************************************************************)
(* flush_file and the writeback it waits for.                              *)
(***************************************************************************)
\* A modification [slot, stamp] is part of a successful upload_small once
\* an epoch of its slot that is not older has been uploaded.
Included(n) ==
    \E e \in DOMAIN epochs :
        epochs[e].slot = n.slot /\ e >= n.stamp /\ epochs[e].uploaded

\* C1: whenever flush_file(id) returns success, every write or
\* truncate_file on id that returned before flush_file was called has been
\* included in a successful upload_small, unless the slot holding it was
\* invalidated.
C1_FlushLeavesNothingPending ==
    (ret.op = "flush" /\ ret.res = "Ok") =>
        \A n \in ret.val :
            Included(n) \/ slots[n.slot].status = "Invalidated"

(***************************************************************************)
(* The end of an upload.                                                   *)
(***************************************************************************)
\* The event a successful upload of epoch e has to produce.
EpochEvent(e) ==
    [item_id |-> slots[epochs[e].slot].item_id, size |-> epochs[e].size,
     c_tag |-> epochs[e].c_tag]

EventsOf(e) == {i \in 1..Len(events) : events[i] = EpochEvent(e)}

\* An uploader whose upload_small succeeded for the epoch that is still the
\* slot's current one takes its critical section: the slot is Available with
\* the tag the upload returned.
C2_Finish ==
    \A t \in uploaders :
        ( /\ t.pc = "uploaded"
          /\ slots[t.slot].status = "Dirty"
          /\ slots[t.slot].lock_mtime = t.init_lock_mtime
          /\ t \notin uploaders' )
        => /\ slots'[t.slot].status = "Available"
           /\ slots'[t.slot].c_tag = epochs[t.init_lock_mtime].c_tag
           /\ \E u \in uploaders' : u.init_lock_mtime = t.init_lock_mtime

\* One event per epoch whose done channel closed with true, none for any
\* other epoch, and no other events.
C2_Emitted ==
    /\ \A e \in DOMAIN epochs :
          Cardinality(EventsOf(e)) = IF epochs[e].done = "true" THEN 1 ELSE 0
    /\ Len(events) = Cardinality({e \in DOMAIN epochs : epochs[e].done = "true"})

\* A flush_file that leaves its wait on an epoch with success, the epoch not
\* having been cancelled, finds the event of the epoch emitted.
C2_Flush ==
    \A o \in ops :
        ( /\ o.op = "flush" /\ o.pc = "wait_done"
          /\ epochs[o.stamp].done # "false"
          /\ o \notin ops' /\ ret'.op = "flush" /\ ret'.res = "Ok" )
        => EventsOf(o.stamp) # {}

\* C2: when upload_small succeeds for a dirty epoch that is still current,
\* the slot becomes Available with the c_tag the upload returned, and
\* exactly one UpdateFile event with the item id, the uploaded size and that
\* tag is emitted, before any flush_file waiting on the epoch returns
\* success.
C2_UploadSuccess == [][C2_Finish /\ C2_Flush /\ C2_Emitted']_vars

\* A flush_file has returned success for a modification whose epoch was
\* uploaded, and the slot is Available with the tag of that upload.
C2_Witness ==
    \E e \in DOMAIN epochs :
        /\ epochs[e].done = "true"
        /\ ret.op = "flush" /\ ret.res = "Ok"
        /\ [slot |-> epochs[e].slot, stamp |-> e] \in ret.val
        /\ slots[epochs[e].slot].status = "Available"
        /\ slots[epochs[e].slot].c_tag = epochs[e].c_tag
        /\ EventsOf(e) # {}

(***************************************************************************)
(* Coalescing of writes.                                                   *)
(***************************************************************************)
\* The stamp of the newest epoch of slot s: the epoch of the last write of
\* its burst.
LastEpochs(s) ==
    {e \in DOMAIN epochs :
        /\ epochs[e].slot = s
        /\ \A d \in DOMAIN epochs : epochs[d].slot = s => d <= e}

\* The uploader tasks of the burst of slot s that hold a snapshot.
Uploading(s) ==
    {t \in uploaders : /\ t.slot = s
                       /\ t.init_lock_mtime \in LastEpochs(s)
                       /\ t.pc \in {"upload", "uploaded", "emit"}}

\* C3: the writes of a burst that all come within one flush_delay, with no
\* explicit flush and no failed upload, produce exactly one upload_small
\* call, whose payload is cache_file[0..file_size] as the uploader found it
\* under the lock: all of those writes.
C3_Coalesced ==
    \A s \in Live :
        LET f == slots[s]
        IN  (f.burst_writes > 0 /\ f.burst_clean) =>
               /\ f.burst_calls <= 1
               /\ f.status = "Dirty" =>
                     Cardinality(Uploading(s)) = f.burst_calls
               /\ f.status = "Available" => f.burst_calls = 1
               /\ \A t \in Uploading(s) :
                     t.data = ReadAt(f.cache_file, 0, f.file_size)

\* Two writes of one burst are on the remote after a single upload_small.
C3_Witness ==
    \E s \in Live :
        /\ slots[s].status = "Available"
        /\ slots[s].burst_clean
        /\ slots[s].burst_writes >= 2
        /\ slots[s].burst_calls = 1
        /\ remote[slots[s].item_id].data = slots[s].cache_file

(***************************************************************************)
(* Uploads of an epoch that is no longer current.                          *)
(***************************************************************************)
\* An uploader whose upload_small succeeded for an epoch that is not the
\* slot's current one any more takes its critical section: it leaves with
\* no event, and the slot is as it was (or gone with its last owner).
C4_Suppressed ==
    \A t \in uploaders :
        ( /\ t.pc = "uploaded"
          /\ ~( /\ slots[t.slot].status = "Dirty"
                /\ slots[t.slot].lock_mtime = t.init_lock_mtime )
          /\ t \notin uploaders' )
        => /\ events' = events
           /\ \/ slots'[t.slot] = slots[t.slot]
              \/ slots'[t.slot].status = "Dropped"
           /\ \A u \in uploaders' : u.init_lock_mtime # t.init_lock_mtime
           /\ epochs'[t.init_lock_mtime].done = "false"

\* A later epoch of the slot of epoch e.
Superseded(e) ==
    \E e2 \in DOMAIN epochs : e2 > e /\ epochs[e2].slot = epochs[e].slot

\* The current epoch of a dirty slot has its uploader task, and a snapshot
\* held for it is the content the task found under the lock of this epoch.
C4_Fresh ==
    \A s \in Live :
        slots[s].status = "Dirty" =>
            /\ \E t \in uploaders :
                  t.slot = s /\ t.init_lock_mtime = slots[s].lock_mtime
            /\ \A t \in Uploading(s) :
                  t.init_lock_mtime = slots[s].lock_mtime =>
                      t.data = ReadAt(slots[s].cache_file, 0, slots[s].file_size)

\* Epoch e has emitted its event, or a later epoch or an invalidation has
\* taken its place.
Settled(e) ==
    /\ e \in DOMAIN epochs
    /\ \/ EventsOf(e) # {}
       \/ Superseded(e)
       \/ slots[epochs[e].slot].status \in {"Invalidated", "Dropped"}

\* C4: an upload whose dirty epoch is no longer current when it completes
\* (a later write or truncate installed a new epoch, or the slot was
\* invalidated) emits no event and changes neither status nor c_tag; the
\* newest epoch of a slot that is not invalidated uploads a fresh snapshot
\* and emits its event.
C4_StaleEpoch ==
    /\ [][C4_Suppressed /\ C4_Fresh']_vars
    /\ \A e \in 1..MaxEpochs :
          [](e \in DOMAIN epochs => <>Settled(e))

\* An epoch superseded by a write has completed its upload and been
\* suppressed, and the newer epoch has emitted its event.
C4_Witness ==
    \E e, e2 \in DOMAIN epochs :
        /\ e < e2 /\ epochs[e].slot = epochs[e2].slot
        /\ epochs[e].uploaded /\ epochs[e].done = "false"
        /\ EventsOf(e) = {}
        /\ EventsOf(e2) # {}

(***************************************************************************)
(* Invalidated slots.                                                      *)
(***************************************************************************)
\* The result a write(offset, data) may have on an invalidated slot.
InvalidatedWrite(arg) ==
    IF config.upload.max_size < arg[1] + Len(arg[2])
    THEN "FileTooLarge" ELSE "Invalidated"

\* What a step may do with the slots that are Invalidated before it: reads
\* that do not take the empty shortcut fail, writes fail with one of results.
Absorbing(results) ==
    \A s \in SlotIds :
        slots[s].status = "Invalidated" =>
            /\ slots'[s].status \in {"Invalidated", "Dropped"}
            /\ (ret'.op = "write" /\ ret'.slot = s) => ret'.res \in results
            /\ ( /\ ret'.op = "read" /\ ret'.slot = s
                 /\ ret'.arg[2] > 0 /\ ret'.arg[1] < slots[s].file_size )
               => ret'.res = "Invalidated"

\* C5 as stated: once a slot's status is Invalidated, no operation or task
\* changes it again, every later write fails with Invalidated, and every
\* later read with size > 0 and offset < file_size fails with Invalidated.
C5_Absorbing == [][Absorbing({"Invalidated"})]_vars

\* C5: once a slot's status is Invalidated, no operation or task changes it
\* again, every later read with size > 0 and offset < file_size fails with
\* Invalidated, and every later write fails: with FileTooLarge when
\* offset + len exceeds upload.max_size, with Invalidated otherwise.
C5_AbsorbingSized ==
    [][Absorbing({InvalidatedWrite(ret'.arg)})]_vars

\* A write within upload.max_size has failed on an invalidated slot that a
\* truncate_file or flush_file still holds.
C5_Witness ==
    /\ ret.op = "write" /\ ret.res = "Invalidated"
    /\ slots[ret.slot].status = "Invalidated"
    /\ \E o \in ops : o.op \in {"truncate", "flush"} /\ ret.slot \in o.holds

\* The slots the cache map holds are not Invalidated.
C6_MapClean ==
    \A i \in 1..Len(cache) : slots[cache[i].slot].status # "Invalidated"

\* The slot an open or truncate_file returns with is not Invalidated,
\* neither before nor after the step.
C6_Returned ==
    ( /\ ret'.op \in {"open", "truncate"}
      /\ ret'.res = "Ok" /\ ret'.slot # NoSlot )
    => /\ slots'[ret'.slot].status # "Invalidated"
       /\ ret'.slot \in SlotIds => slots[ret'.slot].status # "Invalidated"

\* C6: after a slot of id has been invalidated (by sync_items, or by
\* insert_empty replacing it), no later open or truncate_file returns or
\* operates on it: the cache map never holds an Invalidated slot, and the
\* retried operation gets a fresh slot.
C6_NeverHandedOut == [][C6_MapClean' /\ C6_Returned]_vars

\* An open or truncate_file of an id with an invalidated slot has returned
\* with a later, fresh slot of the id.
C6_Witness ==
    /\ ret.op \in {"open", "truncate"} /\ ret.res = "Ok" /\ ret.slot # NoSlot
    /\ \E s \in SlotIds :
          /\ s < ret.slot
          /\ slots[s].status = "Invalidated"
          /\ slots[s].item_id = slots[ret.slot].item_id
    /\ slots[ret.slot].status = "Downloading"

(***************************************************************************)
(* Reads that have nothing to return.                                      *)
(***************************************************************************)
\* read(offset, size) on a file of file_size bytes has nothing to return.
NothingToRead(offset, size, file_size) == size = 0 \/ offset >= file_size

\* C10: read(offset, size) returns empty bytes without error whenever
\* size = 0 or offset >= file_size, whatever the status of the slot, and
\* without waiting.
C10_ReadEmpty ==
    [][ /\ ( /\ ret'.op = "read" /\ ops' = ops
             /\ NothingToRead(ret'.arg[1], ret'.arg[2],
                              slots[ret'.slot].file_size) )
           => ret'.res = "Ok" /\ ret'.val = <<>>
        /\ \A o \in ops' \ ops :
              o.op = "read" =>
                  ~NothingToRead(o.offset, o.size, slots[o.slot].file_size)
      ]_vars

\* A read of no bytes has returned empty from an invalidated slot.
C10_Witness ==
    /\ ret.op = "read" /\ ret.res = "Ok" /\ ret.val = <<>>
    /\ ret.arg[2] = 0
    /\ slots[ret.slot].status = "Invalidated"

(***************************************************************************)
(* The byte budget and the slots of an item.                               *)
(***************************************************************************)
\* What the live slots hold on disk.
FileSizes == [s \in SlotIds |-> slots[s].file_size]
LiveBytes == SumOver(FileSizes, Live)

\* C7: in every reachable state the sum of file_size over all live slots is
\* at most disk_cache.max_total_size.
C7_ByteBudget == LiveBytes <= config.disk_cache.max_total_size

\* C8: between critical sections the total_size counter equals the sum of
\* file_size over the live slots, so it never goes below zero (never wraps).
C8_BudgetAccounting == total_size = LiveBytes /\ total_size >= 0

\* C9: at any time at most one live slot exists per item id, whoever holds
\* it: the cache map, an open handle or a background task.
C9_OneSlotPerItem ==
    \A s1, s2 \in Live : slots[s1].item_id = slots[s2].item_id => s1 = s2

(***************************************************************************)
(* Reading back what was written.                                          *)
(***************************************************************************)
\* Byte p (counted from 0) of what read(offset, ..) returned as val.
ByteRead(val, offset, p) == val[p - offset + 1]

\* The write(off, d) that returns with success in this step leaves a slot
\* where read(off, len(d)) gives d and the gap above the old size zeros.
C11_Written ==
    (ret'.op = "write" /\ ret'.res = "Ok") =>
        LET off == ret'.arg[1]
            d   == ret'.arg[2]
            old == slots[ret'.slot].file_size
            f   == slots'[ret'.slot]
        IN  /\ f.status \in {"Available", "Dirty"}
            /\ ReadLocked(f, off, Len(d)) = [res |-> "Ok", val |-> d]
            /\ old < off =>
                  ReadLocked(f, old, off - old) =
                      [res |-> "Ok", val |-> Zeros(off - old)]

\* The read that returns in the step right after a successful write on the
\* same slot returns the bytes of the file up to its end, those the write
\* covered being the written ones.
C11_ReadBack ==
    ( /\ ret.op = "write" /\ ret.res = "Ok"
      /\ ret'.op = "read" /\ ret'.slot = ret.slot )
    => LET off  == ret.arg[1]
           d    == ret.arg[2]
           roff == ret'.arg[1]
           size == ret'.arg[2]
       IN  /\ ret'.res = "Ok"
           /\ Len(ret'.val) = Max(0, Min(size, ret.val[1] - roff))
           /\ \A p \in roff..(roff + Len(ret'.val) - 1) :
                 (off <= p /\ p < off + Len(d)) =>
                     ByteRead(ret'.val, roff, p) = d[p - off + 1]

\* C11: for a slot that is Available or Dirty, after write(off, d) returns
\* success, read(off, len(d)) returns exactly d when no write, truncate or
\* invalidation comes between, and the bytes of a gap between the old
\* file_size and off read as zero.
C11_RoundTrip == [][C11_Written /\ C11_ReadBack]_vars

\* write(1, <<2>>) above the end of an empty file has been read back with
\* the zero of the gap in front.
C11_Witness ==
    /\ ret.op = "read" /\ ret.res = "Ok" /\ ret.arg = <<0, 2>>
    /\ ret.val = <<0, 2>>
    /\ slots[ret.slot].status = "Dirty"

(***************************************************************************)
(* Writes beyond upload.max_size.                                          *)
(***************************************************************************)
\* write(offset, data) reaches beyond upload.max_size.
BeyondMaxSize(offset, data) == config.upload.max_size < offset + Len(data)

\* C12: write(offset, data) with offset + len(data) > upload.max_size fails
\* with FileTooLarge and leaves the slot unchanged: status, dirty epoch,
\* file_size, cache_file contents and total_size are as before, and no
\* upload is queued; nor does such a write wait for a download.
C12_FileTooLarge ==
    [][ /\ (ret'.op = "write" /\ BeyondMaxSize(ret'.arg[1], ret'.arg[2])) =>
              /\ ret'.res = "FileTooLarge"
              /\ slots' = slots
              /\ total_size' = total_size
              /\ uploaders' = uploaders
              /\ epochs' = epochs
        /\ \A o \in ops' \ ops :
              o.op = "write" => ~BeyondMaxSize(o.offset, o.data)
      ]_vars

\* A write beyond upload.max_size has failed on a slot that is downloading.
C12_Witness ==
    /\ ret.op = "write" /\ ret.res = "FileTooLarge"
    /\ BeyondMaxSize(ret.arg[1], ret.arg[2])
    /\ slots[ret.slot].status = "Downloading"

(***************************************************************************)
(* truncate_file during the download.                                      *)
(***************************************************************************)
\* The download cap of a slot that is downloading.
DownloadCap(f) == IF f.truncate # None THEN f.truncate ELSE f.file_size

\* The first cap bytes of the stream src, then zeros up to file_size.
CutStream(src, cap, file_size) ==
    SubSeq(src, 1, cap) \o Zeros(file_size - cap)

\* truncate_file takes its critical section on a slot that is downloading:
\* the new size, the lower cap, still downloading, nothing queued.
C13_Truncate ==
    \A o \in ops \ ops' :
        ( /\ o.op = "truncate" /\ o.pc = "lock"
          /\ slots[o.slot].status = "Downloading" )
        => /\ ret'.op = "truncate" /\ ret'.res = "Ok"
           /\ slots'[o.slot].status = "Downloading"
           /\ slots'[o.slot].file_size = o.size
           /\ slots'[o.slot].truncate = Min(DownloadCap(slots[o.slot]), o.size)
           /\ Len(slots'[o.slot].cache_file) = o.size
           /\ uploaders' = uploaders
           /\ epochs' = epochs

\* A slot that is downloading has no upload queued.
C13_NothingQueued ==
    \A s \in Live :
        slots[s].status = "Downloading" =>
            /\ \A t \in uploaders : t.slot # s
            /\ \A e \in DOMAIN epochs : epochs[e].slot # s

\* The writer task ends on a slot with a pending truncate: failed when the
\* channel closed below the cap, else Dirty, with cap bytes written, the
\* stream cut at the cap in cache_file, and an upload queued.
C13_Complete ==
    \A s \in DOMAIN wtask \ DOMAIN wtask' :
        ( /\ slots[s].status = "Downloading" /\ slots[s].truncate # None
          /\ slots'[s].status # "Dropped" )
        => /\ slots'[s].status \in {"Dirty", "DownloadFailed"}
           /\ slots'[s].status = "DownloadFailed" =>
                 wtask[s].pos < slots[s].truncate
           /\ slots'[s].status = "Dirty" =>
                 /\ slots'[s].cache_file =
                       CutStream(wtask[s].src, slots[s].truncate,
                                 slots[s].file_size)
                 /\ \E t \in uploaders' \ uploaders :
                       /\ t.slot = s
                       /\ t.init_lock_mtime = slots'[s].lock_mtime
                       /\ t.pc = "delay"

\* The upload queued by the end of the download carries the stream cut at
\* the cap.
C13_Uploaded ==
    \A t \in uploaders :
        ( /\ t.pc \in {"upload", "uploaded", "emit"}
          /\ slots[t.slot].status # "Dropped"
          /\ t.init_lock_mtime = slots[t.slot].completion.stamp )
        => t.data = CutStream(slots[t.slot].completion.src,
                              slots[t.slot].completion.cap,
                              slots[t.slot].completion.file_size)

\* C13: truncate_file(new_size) on a slot that is Downloading sets
\* file_size = new_size and the download cap to min(current cap, new_size)
\* and queues no upload while the slot is still Downloading; when the
\* writer has written cap bytes the slot becomes Dirty (not Available), an
\* upload is queued, and the uploaded content is the first cap bytes of the
\* remote stream followed by zeros up to file_size.
C13_TruncateWhileDownloading ==
    [][C13_Truncate /\ C13_Complete /\ C13_NothingQueued' /\ C13_Uploaded']_vars

\* A download cut at one byte and grown again to two has been uploaded as
\* that byte and a zero.
C13_Witness ==
    \E s \in Live :
        /\ slots[s].completion.stamp # 0
        /\ slots[s].completion.cap = 1
        /\ slots[s].completion.file_size = 2
        /\ epochs[slots[s].completion.stamp].uploaded
        /\ remote[slots[s].item_id].data = <<1, 0>>

(***************************************************************************)
(* Failed downloads.                                                       *)
(***************************************************************************)
\* The result a write(offset, data) may have on a slot whose download
\* failed.
FailedWrite(arg) ==
    IF BeyondMaxSize(arg[1], arg[2]) THEN "FileTooLarge" ELSE "DownloadFailed"

\* The channel of the writer task of s closes below the download cap.
ClosedEarly(s) ==
    /\ WriterClosed(s)
    /\ slots[s].status = "Downloading"
    /\ wtask[s].pos < DownloadCap(slots[s])

\* What a step may do about a failed download: the slot whose channel
\* closes early becomes DownloadFailed; a slot that is DownloadFailed stays
\* so while the map holds it; reads that do not take the empty shortcut and
\* flush_file fail with DownloadFailed, writes fail with one of results.
FailedDownload(results) ==
    /\ \A s \in DOMAIN wtask :
          ClosedEarly(s) => slots'[s].status \in {"DownloadFailed", "Dropped"}
    /\ \A s \in SlotIds :
          slots[s].status = "DownloadFailed" =>
             /\ s \in CachedSlots(cache) =>
                   slots'[s].status \in {"DownloadFailed", "Dropped"}
             /\ (ret'.op = "write" /\ ret'.slot = s) => ret'.res \in results
             /\ (ret'.op = "flush" /\ ret'.slot = s) =>
                   ret'.res = "DownloadFailed"
             /\ ( /\ ret'.op = "read" /\ ret'.slot = s
                  /\ ret'.arg[2] > 0 /\ ret'.arg[1] < slots[s].file_size )
                => ret'.res = "DownloadFailed"

\* The calls waiting for the download of a slot that failed can go on: the
\* writer task, and pos_tx with it, is gone.
FailedWakes ==
    \A o \in ops :
        ( /\ o.pc \in {"wait_available", "wait_download"}
          /\ slots[o.slot].status = "DownloadFailed" )
        => ~PosTxAlive(o.slot)

\* C14 as stated: if the chunk channel closes before the writer has written
\* download-cap bytes, the slot becomes DownloadFailed; the reads and
\* writes waiting for the download are woken and fail with DownloadFailed,
\* flush_file fails with DownloadFailed, and every later read (size > 0,
\* offset < file_size) and write fails with DownloadFailed for as long as
\* the slot stays in the cache.
C14_DownloadFailed ==
    [][FailedDownload({"DownloadFailed"}) /\ FailedWakes']_vars

\* C14: as above, but a later write fails with FileTooLarge when
\* offset + len exceeds upload.max_size, with DownloadFailed otherwise.
C14_DownloadFailedSized ==
    [][FailedDownload({FailedWrite(ret'.arg)}) /\ FailedWakes']_vars

\* A write within upload.max_size has failed with DownloadFailed on a slot
\* whose download failed.
C14_Witness ==
    /\ ret.op = "write" /\ ret.res = "DownloadFailed"
    /\ ~BeyondMaxSize(ret.arg[1], ret.arg[2])
    /\ slots[ret.slot].status = "DownloadFailed"

(***************************************************************************)
(* Reads through a streaming handle.                                       *)
(***************************************************************************)
\* The stream_read that returns in this step without having been let into
\* the loop, and the one that ends its loop.
StreamRefused == ret'.op = "stream_read" /\ ops' = ops
StreamServed  == ret'.op = "stream_read" /\ ops' # ops

\* C15: streaming reads are strictly sequential and exact.  A read at
\* offset = current_pos returns exactly size bytes (size clamped to the
\* rest of the file), the bytes [offset, offset + size) of the stream
\* however it was cut into chunks, and advances current_pos by size; a
\* read at any other offset fails with NonsequentialRead{current_pos,
\* try_offset} and changes neither current_pos nor the stashed chunk; fewer
\* bytes than requested come only from a download that ended early, which
\* gives DownloadFailed.
C15_SequentialExact ==
    [][ LET i  == ret'.slot
            st == streams[i]
        IN  /\ StreamRefused =>
                  /\ ret'.arg[1] # st.current_pos
                  /\ ret'.res = "NonsequentialRead"
                  /\ ret'.val = <<st.current_pos, ret'.arg[1]>>
                  /\ streams' = streams
            /\ \A o \in ops' \ ops :
                  (o.op = "stream_read" /\ o.data = <<>>) =>
                      /\ o.offset = streams[o.slot].current_pos
                      /\ o.offset + o.size <= streams[o.slot].file_size
            /\ StreamServed =>
                  /\ ret'.res \in {"Ok", "DownloadFailed"}
                  /\ ret'.res = "Ok" =>
                        /\ Len(ret'.val) = ret'.arg[2]
                        /\ ret'.val = SubSeq(st.src, ret'.arg[1] + 1,
                                             ret'.arg[1] + ret'.arg[2])
                        /\ i \in StreamOwners(handles', ops') =>
                              streams'[i].current_pos =
                                  ret'.arg[1] + ret'.arg[2]
                  /\ ret'.res = "DownloadFailed" =>
                        /\ Len(ret'.val) < ret'.arg[2]
                        /\ ~st.tx /\ st.sent < st.file_size
      ]_vars

(***************************************************************************)
(* The frame of sync_items.                                                *)
(***************************************************************************)
CachedIds(c) == {c[i].id : i \in 1..Len(c)}

\* The cached slots an item of the list declares outdated: the item is no
\* folder, names the slot's id, and is deleted or carries another CTag.
FeedOutdated(items) ==
    {i \in CachedSlots(cache) :
        \E n \in 1..Len(items) :
            /\ items[n].kind # "folder"
            /\ CacheLookup(cache, items[n].id) = i
            /\ \/ items[n].kind = "deleted"
               \/ items[n].c_tag # slots[i].c_tag}

\* The slots sync_items calls still have to mark.
FeedQueued(o) == UNION {Range(s.queue) : s \in {x \in o : x.op = "sync"}}

\* C16: sync_items(items) removes from the cache map and marks Invalidated
\* exactly the cached slots whose id appears in a non-folder item that is
\* deleted or whose c_tag differs from the slot's; every other slot keeps
\* its status, its contents and its place in the map, and no slot is
\* created.  The call removes under the map lock and then marks the removed
\* slots one after the other.
C16_SyncFrame ==
    [][ /\ \A items \in FeedLists(Ids) : SyncItems(items) =>
              LET out == FeedOutdated(items)
              IN  /\ CachedSlots(cache') = CachedSlots(cache) \ out
                  /\ CachedIds(cache') =
                        CachedIds(cache) \ {slots[i].item_id : i \in out}
                  /\ \A i \in CachedSlots(cache') :
                        CacheLookup(cache', slots[i].item_id) = i
                  /\ slots' = slots
                  /\ FeedQueued(ops') = FeedQueued(ops) \cup out
        /\ \A o \in ops : SyncInvalidate(o) =>
              LET i == Head(o.queue)
              IN  /\ cache' = cache
                  /\ i \notin CachedSlots(cache)
                  /\ Len(slots') = Len(slots)
                  /\ slots'[i].status \in {"Invalidated", "Dropped"}
                  /\ \A j \in DOMAIN slots : j # i => slots'[j] = slots[j]
                  /\ FeedQueued(ops') \cup {i} = FeedQueued(ops)
      ]_vars

\* A list of two items has removed one cached slot and kept the other, and
\* the removed one has been marked.
C16_Witness ==
    /\ Len(slots) = 2 /\ Len(cache) = 1
    /\ \E i \in DOMAIN slots :
          /\ slots[i].status = "Invalidated"
          /\ i \notin CachedSlots(cache)
          /\ slots[3 - i].status = "Available"
          /\ 3 - i \in CachedSlots(cache)

(***************************************************************************)
(* The inode pool.                                                         *)
(***************************************************************************)
InodeOf(ino) == inodes.pool[InoToKey(inodes, ino)]

\* C17: a newly allocated inode has ref_count 1; a lookup of a known item
\* id adds 1 to its ref_count and returns the same inode number;
\* free(ino, n) takes n off; the ref_count of an entry never goes below 0
\* (never wraps), and the entry is cleared and its item id removed from the
\* reverse map exactly when the ref_count reaches 0.
C17_RefCount ==
    [][ /\ (ret'.op = "lookup" /\ ret'.res = "Ok") =>
              LET key == inodes.rev_map[ret'.id]
                  new == InoToKey(inodes, ret'.val[1])
              IN  /\ inodes'.pool[new].live
                  /\ inodes'.pool[new].item_id = ret'.id
                  /\ inodes'.rev_map[ret'.id] = new
                  /\ IF key = None
                     THEN /\ ~inodes.pool[new].live
                          /\ inodes'.pool[new].ref_count = 1
                     ELSE /\ new = key
                          /\ inodes'.pool[new].ref_count =
                                inodes.pool[key].ref_count + 1
        /\ (ret'.op = "free" /\ ret'.res = "Ok") =>
              LET key == InoToKey(inodes, ret'.arg[1])
                  id  == inodes.pool[key].item_id
              IN  /\ inodes'.pool[key].ref_count =
                        inodes.pool[key].ref_count - ret'.arg[2]
                  /\ inodes'.pool[key].ref_count >= 0
                  /\ inodes'.pool[key].ref_count = 0 <=>
                        (~inodes'.pool[key].live
                            /\ inodes'.rev_map[id] = None)
                  /\ inodes'.pool[key].ref_count # 0 =>
                        (inodes'.pool[key].live
                            /\ inodes'.rev_map[id] = key)
      ]_vars

\* C18: the root inode is number 1, starts with ref_count 1 and is never
\* freed: get_item_id(1) returns the root item id whatever lookup, touch
\* and free calls were made.
C18_RootKept ==
    /\ GetItemId(inodes, ROOT_INO) = RootId
    /\ InodeOf(ROOT_INO).ref_count >= 1

(***************************************************************************)
(* Reads and writes during the download.                                   *)
(***************************************************************************)
\* The read that returns in this step had waited for the download.
WaitedRead == ret'.op = "read" /\ (\E o \in ops \ ops' : o.op = "read")

\* C19: a read that had to wait for the download is served against the
\* file_size it finds when it takes the lock again: unless the slot is
\* Invalidated or DownloadFailed by then, it returns the bytes
\* [offset, min(offset + size, file_size)) of the cache file, and no bytes
\* when truncate_file has shrunk file_size to offset or below meanwhile;
\* the length is never computed from an end below offset.
C19_ReadAfterWait ==
    [][ WaitedRead =>
          LET f      == slots[ret'.slot]
              offset == ret'.arg[1]
              size   == ret'.arg[2]
              end    == Min(offset + size, f.file_size)
          IN  /\ ret'.res \in {"Ok", "Invalidated", "DownloadFailed"}
              /\ ret'.res = "Ok" =>
                    /\ f.status \in {"Available", "Dirty", "Downloading"}
                    /\ ret'.val = IF f.file_size <= offset THEN <<>>
                                  ELSE ReadAt(f.cache_file, offset, end)
      ]_vars

\* The slots a write call acts on in this step: the one of a write that
\* returns, and the one of a write that starts to wait.
WriteSteps ==
    (IF ret'.op = "write" THEN {ret'.slot} ELSE {})
    \cup {o.slot : o \in {x \in ops' \ ops : x.op = "write"}}

\* C20: no user write modifies cache_file, file_size or the status of a
\* slot that is Downloading: a write issued during the download changes
\* the slot only in a step where the status has left Downloading and the
\* writer task is gone, and a step in which the writer task writes is no
\* step of a user write.
C20_NoWriteWhileDownloading ==
    [][ /\ \A i \in WriteSteps :
              /\ slots[i].status = "Downloading" =>
                    /\ slots'[i].cache_file = slots[i].cache_file
                    /\ slots'[i].file_size = slots[i].file_size
                    /\ slots'[i].status \in {"Downloading", "Dropped"}
                    /\ ret'.op = "write" => ret'.res # "Ok"
              /\ (ret'.op = "write" /\ ret'.res = "Ok") =>
                    /\ slots[i].status \in {"Available", "Dirty"}
                    /\ ~PosTxAlive(i)
              /\ slots'[i] # slots[i] =>
                    \/ ret'.op = "write" /\ ret'.res = "Ok"
                    \/ slots'[i].status = "Dropped"
        /\ \A i \in DOMAIN wtask :
              (i \notin DOMAIN wtask' \/ wtask'[i] # wtask[i]) =>
                    i \notin WriteSteps
      ]_vars

\* A write waits for a download of which the writer task has written a
\* part, and a write that returns with success finds the download over.
C20_Witness ==
    \E o \in ops :
        /\ o.op = "write" /\ o.pc = "wait_download"
        /\ slots[o.slot].status = "Downloading"
        /\ slots[o.slot].available_size > 0
        /\ PosTxAlive(o.slot)

(***************************************************************************)
(* truncate_file beside a failed slot and on an id that is not cached.     *)
(***************************************************************************)
\* The truncate_file calls that return from try_alloc_and_fetch in this
\* step with success.
TruncateAllocated ==
    {o \in ops \ ops' : /\ o.op = "truncate" /\ o.pc = "alloc"
                        /\ ret'.op = "truncate" /\ ret'.res = "Ok"}

\* C21: truncate_file(id, new_size) on an id whose cached slot is
\* DownloadFailed or Invalidated allocates a fresh slot, Downloading with the
\* pending truncate min(remote_size, new_size) and file_size = new_size, and
\* the map holds that slot for id when the call returns success.
C21_FreshSlot ==
    [][ \A o \in TruncateAllocated :
          LET old == CacheLookup(cache, o.id)
              new == CacheLookup(cache', o.id)
          IN  (old # NoSlot /\ slots[old].status \in
                                  {"DownloadFailed", "Invalidated"}) =>
                  /\ new # NoSlot /\ new # old
                  /\ new \notin DOMAIN slots
                  /\ slots'[new].status = "Downloading"
                  /\ slots'[new].truncate = Min(o.remote_size, o.size)
                  /\ slots'[new].file_size = o.size
      ]_vars

\* The slots whose writer task ends in this step with a truncate pending.
TruncatedFetched ==
    {s \in DOMAIN wtask \ DOMAIN wtask' :
        /\ slots[s].status = "Downloading" /\ slots[s].truncate # None
        /\ slots'[s].status # "Dropped"}

\* C22: truncate_file(id, new_size) on an id without cached slot ends with
\* the fresh slot Dirty, holding the first new_size bytes of the remote
\* content (zeros above the remote size), however the response is cut into
\* chunks: with a transport that does not fail, download_thread never
\* fails its assertion pos <= file_size and no slot becomes DownloadFailed.
C22_TruncatedFetch ==
    [][ /\ \A s \in DOMAIN wtask, n \in ChunkLens : ~DownloadAsserted(s, n)
        /\ \A s \in DOMAIN slots' : slots'[s].status # "DownloadFailed"
        /\ \A s \in TruncatedFetched :
              /\ slots'[s].status = "Dirty"
              /\ slots'[s].cache_file =
                    CutStream(wtask[s].src, slots[s].truncate,
                              slots[s].file_size)
      ]_vars

(***************************************************************************)
(* The available_size watch.                                               *)
(***************************************************************************)
\* C23: while a slot is Downloading the value published on available_size
\* never decreases from one publication to the next, truncate_file calls
\* that shrink the file and the last publication at the completion
\* included, and until the completion each published value is
\* min(bytes written, download cap).
C23_AvailableMonotone ==
    [][ \A s \in DOMAIN slots :
          (slots[s].status = "Downloading" /\ slots'[s].status # "Dropped") =>
              /\ slots'[s].available_size >= slots[s].available_size
              /\ ( /\ slots'[s].status = "Downloading"
                   /\ slots'[s].available_size # slots[s].available_size ) =>
                      /\ s \in DOMAIN wtask'
                      /\ slots'[s].available_size =
                            Min(wtask'[s].pos, DownloadCap(slots[s]))
      ]_vars

(***************************************************************************)
(* Failed uploads.                                                         *)
(***************************************************************************)
\* What a slot holds for its users.
SlotView(f) == <<f.status, f.lock_mtime, f.flush_tx, f.file_size,
                 f.cache_file, f.c_tag>>

\* A failure of upload_small in this step: the slot is as it was, no event,
\* the epoch's done channel stays open, and the task sleeps for the retry.
C24_Failed ==
    failures' # failures =>
        \E t \in uploaders :
            /\ t.pc = "upload"
            /\ uploaders' = SetTask(t, [t EXCEPT !.pc = "check", !.data = <<>>])
            /\ SlotView(slots'[t.slot]) = SlotView(slots[t.slot])
            /\ events' = events
            /\ remote' = remote
            /\ epochs'[t.init_lock_mtime].done = "open"
            /\ ~epochs'[t.init_lock_mtime].uploaded

\* A retry: under the lock the task finds its epoch current and goes on
\* with the contents as they are now, or finds it superseded or the slot
\* invalidated and exits without event and without success.
C24_Retried ==
    \A t \in uploaders :
        (t.pc = "check" /\ t \notin uploaders') =>
            LET f == slots[t.slot]
            IN  IF f.status = "Dirty" /\ f.lock_mtime = t.init_lock_mtime
                THEN /\ uploaders' = SetTask(t,
                            [t EXCEPT !.pc = "upload",
                                      !.data = SubSeq(f.cache_file, 1, f.file_size)])
                     /\ epochs' = epochs
                     /\ events' = events
                ELSE /\ uploaders' = uploaders \ {t}
                     /\ epochs'[t.init_lock_mtime].done = "false"
                     /\ events' = events

\* C24: a failed upload_small leaves the slot Dirty with the same epoch,
\* emits no event and does not signal completion; the task retries, and
\* each retry first checks under the lock that its epoch is still current
\* and reads the contents again; it exits only after a success or when the
\* epoch is superseded or the slot invalidated.
C24_RetryUpload == [][C24_Failed /\ C24_Retried]_vars

\* The only epoch of the run has failed once and then uploaded.
C24_Witness ==
    /\ failures >= 1 /\ Len(epochs) = 1
    /\ \E t \in uploaders :
          /\ t.pc = "uploaded"
          /\ slots[t.slot].status = "Dirty"
          /\ slots[t.slot].lock_mtime = t.init_lock_mtime

\* C25: the download task makes at most max_retry retries, that is
\* max_retry + 1 requests, without sending a byte in between: it never goes
\* on with requests that deliver nothing.
C25_BoundedRequests ==
    \A i \in DOMAIN streams :
        streams[i].idle <= config.download.max_retry + 1

FlushCalled == \E o \in ops : o.op = "flush"
FlushReturned == ret.op = "flush"

\* C26: with the download ending, upload_small succeeding after finitely
\* many failures and finitely many writes and truncates of the slot, every
\* flush_file call returns, with DownloadFailed exactly when it finds the
\* slot DownloadFailed and with success otherwise.
C26_FlushTerminates ==
    /\ [](FlushReturned =>
            /\ ret.res \in {"Ok", "DownloadFailed"}
            /\ ret.res = "DownloadFailed" =>
                  slots[ret.slot].status \in {"DownloadFailed", "Dropped"})
    /\ FlushCalled ~> FlushReturned

\* A call that waited for an upload superseded by a write has returned
\* after the upload of the later epoch.
C26_Witness ==
    /\ FlushReturned /\ ret.res = "Ok"
    /\ \E e, e2 \in DOMAIN epochs :
          /\ e < e2 /\ epochs[e].done = "false" /\ epochs[e2].done = "true"
          /\ [slot |-> ret.slot, stamp |-> e] \in ret.val

(***************************************************************************)
(* The timer of a burst.                                                   *)
(***************************************************************************)
\* The epochs of the burst of slot s: one for each queue_upload since the
\* slot was last clean.
BurstEpochs(s) ==
    {e \in DOMAIN epochs :
        /\ epochs[e].slot = s
        /\ Cardinality({d \in DOMAIN epochs : epochs[d].slot = s /\ d >= e})
              <= slots[s].burst_writes}

\* flush_delay has passed for task t, in a burst without explicit flush,
\* and t goes on to call upload_small in this step.
DelayedUpload(t) ==
    /\ t.pc = "delay"
    /\ FlushRxPending(slots[t.slot], t)
    /\ slots[t.slot].burst_clean
    /\ \E u \in uploaders' :
          u.init_lock_mtime = t.init_lock_mtime /\ u.pc = "upload"

\* C27 as stated: the upload of a burst is started by the timer of the
\* first write of the burst; a later write does not restart the delay.
C27_FirstWriteTimer ==
    [][\A t \in uploaders :
          DelayedUpload(t) =>
              \A e \in BurstEpochs(t.slot) : t.init_lock_mtime <= e]_vars

\* C27: the upload of a burst is started by the timer of the last write of
\* the burst: every write spawns a task with a flush_delay of its own, and
\* the task of an earlier write never calls upload_small.
C27_LastWriteTimer ==
    [][\A t \in uploaders :
          /\ DelayedUpload(t) => t.init_lock_mtime \in LastEpochs(t.slot)
          /\ (t.pc = "delay" /\ t.init_lock_mtime \notin LastEpochs(t.slot))
                => \A u \in uploaders' :
                      u.init_lock_mtime = t.init_lock_mtime => u.pc = "delay"]_vars

\* The task of the second write of a burst has called upload_small after
\* its delay, and the task of the first write has returned.
C27_Witness ==
    \E t \in uploaders :
        /\ t.pc = "upload"
        /\ slots[t.slot].burst_clean
        /\ slots[t.slot].burst_writes >= 2
        /\ slots[t.slot].burst_calls = 1
        /\ t.init_lock_mtime \in LastEpochs(t.slot)
        /\ \E e \in BurstEpochs(t.slot) :
              e < t.init_lock_mtime /\ epochs[e].done = "false"

\* C28: touch(item_id) returns an inode number that maps to item_id, for
\* an item with an entry in the pool and for one without.
C28_TouchMaps ==
    (ret.op = "touch") =>
        /\ ret.res = "Ok"
        /\ GetItemId(inodes, ret.val[1]) = ret.id

\* tag is the CTag the remote gave to an upload_small of slot s.
OwnTag(s, tag) ==
    \E e \in DOMAIN epochs :
        epochs[e].slot = s /\ epochs[e].uploaded /\ epochs[e].c_tag = tag

\* C29: sync_items with a file item that carries the CTag of an upload of
\* the cached slot itself leaves the slot in the cache map, so the slot is
\* not invalidated and its unsaved data is kept.
C29_OwnUploadKept ==
    [][\A item \in Items(Ids) :
          (/\ item.kind = "file"
           /\ CacheLookup(cache, item.id) # NoSlot
           /\ OwnTag(CacheLookup(cache, item.id), item.c_tag)
           /\ SyncItems(<<item>>))
              => CacheLookup(cache', item.id) = CacheLookup(cache, item.id)]_vars

(***************************************************************************)
(* The unreachable!() arms (file.rs:350, 784-786, 829-831, 919, 1028).     *)
(***************************************************************************)
\* A slot that left Downloading stays out of it, and only the step that
\* ends the writer task takes a slot from Downloading to Available, Dirty
\* or DownloadFailed.
C30_StatusSteps ==
    \A s \in DOMAIN slots :
        /\ slots[s].status # "Downloading" => slots'[s].status # "Downloading"
        /\ (/\ slots[s].status = "Downloading"
            /\ slots'[s].status \in {"Available", "Dirty", "DownloadFailed"})
              => s \in DOMAIN wtask /\ s \notin DOMAIN wtask'

\* What the tasks and the calls find under the guard.
C30_StatusSeen ==
    /\ \A s \in DOMAIN wtask : slots[s].status \in {"Downloading", "Invalidated"}
    /\ \A t \in uploaders : slots[t.slot].status # "Downloading"
    /\ \A o \in ops :
          (o.pc = "wait_download" /\ ~PosTxAlive(o.slot))
              => slots[o.slot].status # "Downloading"
    /\ ret.res # "Unreachable"

\* C30: no unreachable!() arm is reached: a status that left Downloading
\* never is Downloading again, only the writer task ends a download, and a
\* write or flush_file that waited for the available_size watch to close
\* finds a status other than Downloading.
C30_Unreachable == [][C30_StatusSteps]_vars /\ []C30_StatusSeen

\* A write or flush_file waits on a download whose writer task has ended.
C30_Witness ==
    \E o \in ops :
        /\ o.pc = "wait_download" /\ ~PosTxAlive(o.slot)
        /\ slots[o.slot].status \in {"Available", "Dirty", "DownloadFailed"}

(***************************************************************************)
(* A write and the opens after it.                                         *)
(***************************************************************************)
\* The content fetched under CTag c_tag has the modification n: an upload
\* of its epoch or of a later one of its slot is what the remote held.
FetchedWith(n, c_tag) ==
    \E e \in DOMAIN epochs :
        /\ epochs[e].slot = n.slot /\ e >= n.stamp
        /\ epochs[e].uploaded /\ epochs[e].c_tag <= c_tag

\* C31: an open of id called after a write of id returned success serves
\* that write: it hands out the slot that holds it, or content fetched
\* after an upload with it, unless the slot was invalidated.
C31_OpenServesWrites ==
    [][\A o \in ops :
          (/\ o.op = "open" /\ o \notin ops'
           /\ ret'.op = "open" /\ ret'.res = "Ok")
              => \A n \in o.need :
                    \/ n.stamp = 0
                    \/ ret'.slot = n.slot
                    \/ slots[n.slot].status = "Invalidated"
                    \/ FetchedWith(n, o.c_tag)]_vars

\* C32: the file_size of a Dirty slot is at most upload.max_size, and so
\* is the payload of every upload_small call.
C32_PayloadBound ==
    /\ \A s \in Live :
          slots[s].status = "Dirty" =>
              slots[s].file_size <= config.upload.max_size
    /\ \A t \in uploaders : Len(t.data) <= config.upload.max_size

(***************************************************************************)
(* The reverse map and the slab.                                           *)
(***************************************************************************)
\* rev_map maps id to key k exactly when entry k is live, holds id and has
\* ref_count >= 1; no two live entries hold the same item id.
PoolAgrees ==
    /\ \A id \in InodeItems, k \in InodeKeys :
          inodes.rev_map[id] = k <=>
              (/\ inodes.pool[k].live /\ inodes.pool[k].item_id = id
               /\ inodes.pool[k].ref_count >= 1)
    /\ \A k1, k2 \in InodeKeys :
          (/\ inodes.pool[k1].live /\ inodes.pool[k2].live
           /\ inodes.pool[k1].item_id = inodes.pool[k2].item_id) => k1 = k2

\* C33: the reverse map and the slab agree, and a call that took its key
\* from acquire_or_alloc (touch) or validated its inode (get_attr) finds
\* the entry live and with the same item id when it dereferences it.
C33_PoolAgrees ==
    /\ PoolAgrees
    /\ ret.op \in {"touch", "get_attr"} => ret.res # "Panic"
    /\ (ret.op = "get_attr" /\ ret.res = "Ok") => ret.val = <<ret.id>>

====
